---------------------------- MODULE Spec2Model ----------------------------
(***************************************************************************)
(* A model of ziro: the process lifecycle manager (kill_process,           *)
(* kill_process_force), the connection resolver (find_processes_by_ports,  *)
(* list_all_ports) and the removal engine (collect_files_to_remove,        *)
(* remove_files).  Each component has its own specification; the variables *)
(* of the other components stay at their idle values.                      *)
(***************************************************************************)
EXTENDS Integers, Sequences, FiniteSets, TLC

(***************************************************************************)
(* Bounds of the model.                                                    *)
(***************************************************************************)
MaxPid == 2

MaxPort == 2

MaxRows == 3

MaxReq == 2

MaxBatch == 2

MaxLines == 3

MaxTicks == 3

Pids == 1..MaxPid

Ports == 1..MaxPort

(***************************************************************************)
(* Program constants of core/process/mod.rs and file.rs.                   *)
(***************************************************************************)
MaxAttemptsWide == 3 + 1

MaxAttempts == 3

\* let max_retries = 3 in remove_single_file
MaxRetries == 3

\* sleep(Duration::from_millis((1000 * attempt) as u64)) in remove_single_file
BackoffMs == 1000

\* sleep(Duration::from_millis(1000)) after kill_processes_force
UnlockSleepMs == 1000

VerifySleepMs == 500

RetrySleepMs == 1000

VARIABLES
    procs,      \* the pids the operating system is running
    kpc,        \* position of the current kill call
    kfn,        \* "kill_process" or "kill_process_force"
    kpid,       \* the pid argument
    attempt,    \* loop variable of kill_process_force (0 before the loop)
    signals,    \* calls of process.kill() made by the current call
    accepted,   \* those of them that returned true
    slept,      \* milliseconds slept by the current call
    sleeps500,  \* number of 500 ms sleeps of the current call
    sleeps1000, \* number of 1000 ms sleeps of the current call
    snaps,      \* process snapshots taken by the current call
    kfirst,     \* what the first snapshot showed: "present" / "absent"
    klast,      \* what the latest snapshot showed
    klastsig,   \* outcome of the latest process.kill(): "accepted" / "rejected"
    kresult,    \* "ok", "err_not_found", "err_denied", "err_still_running"
    kbatch,     \* the pids slice of kill_processes / kill_processes_force
    kresults,   \* the Vec<(u32, Result<()>)> collected so far
    connections,\* the HashMap<u16, u32> built by get_network_connections
    nrows,      \* connection rows read so far
    replaced,   \* rows whose insert replaced an earlier row of the same port
    pop,        \* the resolver call made: "none", "find", "list"
    preq,       \* the requested ports of find_processes_by_ports
    pout,       \* the returned Vec<PortInfo>, as <<[port, pid]>>
    fs,         \* the filesystem: existing path |-> "file", "dir", "symlink"
    windows,    \* the build target is Windows (cfg(target_os = "windows"))
    rphase,     \* "idle", "planned", "plan_failed", "executed", "replanned"
    rimpl,      \* the engine in use: "core" (core/fs_ops) or "legacy" (file.rs)
    rreq,       \* the requested paths
    rrecursive, \* the -r flag
    rplan,      \* the Vec<FileInfo> returned by collect_files_to_remove
    rdry,       \* the dry_run flag of remove_files
    rbulk,      \* remove_files returned from try_windows_bulk_remove
    rorder,     \* the entries in the order the per-entry loop handled them
    rresults,   \* the returned Vec<(PathBuf, Result<()>)>, as <<[path, ok]>>
    rtouched,   \* paths a delete or attribute change was issued on
    ranyway,    \* the anyway flag of remove_files
    rlock,      \* the path held open during remove_files, and its holders
    rlog,       \* trace of remove_files of file.rs: attempts, kills, sleeps
    fsBefore,   \* the filesystem when remove_files was called
    procsBefore,\* the process table when remove_files was called
    rplan2,     \* the plan computed again after remove_files returned
    incremental,\* the incremental argument of render_frame
    last_frame, \* the Vec<String> render_frame keeps between calls
    shown,      \* the frames passed to the latest two calls of render_frame
    stdout,     \* what the latest call of render_frame wrote, as operations
    tpc,        \* run_top: "idle", "loop", "leaving", "returned", "interrupted"
    once,       \* opts.once
    use_alt_screen, \* the local use_alt_screen of run_top
    tick,       \* the local tick of run_top
    baseline,   \* refreshes of the process table made before the loop
    refreshes,  \* refreshes of the process table made by the loop
    renders,    \* calls of ui::display_top
    tsleeps,    \* calls of thread::sleep made by run_top
    alt_enters, \* calls of enter_alternate_screen
    alt_exits,  \* calls of exit_alternate_screen
    screen,     \* the buffer the terminal shows: "normal" or "alternate"
    show_cpu,   \* opts.show_cpu
    limit,      \* opts.limit
    snapshot,   \* the processes of the latest refresh, in iteration order
    rows,       \* the processes handed to ui::display_top by the latest tick
    ipaths,     \* the paths slice of inspect_file_locks
    iprobes,    \* per path, what the operating system answers for it
    iresults,   \* the returned Vec<FileLockInfo>
    lop,        \* the detection call made: "none", "is_file_locked", "find"
    lockenv,    \* what the operating system answers to is_file_locked
    findenv,    \* what the lookup tools answer to find_processes_by_file
    llocked,    \* the bool is_file_locked returned
    lpids       \* the Vec<u32> find_processes_by_file returned

killctl == <<kpc, kfn, kpid, attempt, signals, accepted, slept,
             sleeps500, sleeps1000, snaps, kfirst, klast, klastsig, kresult>>

killbatch == <<kbatch, kresults>>

killvars == <<procs, killctl, killbatch>>

portvars == <<connections, nrows, replaced, pop, preq, pout>>

rmvars == <<fs, windows, rphase, rimpl, rreq, rrecursive, rplan, rdry, rbulk,
            rorder, rresults, rtouched, ranyway, rlock, rlog, fsBefore,
            procsBefore, rplan2>>

rendervars == <<incremental, last_frame, shown, stdout>>

topctl == <<tpc, once, use_alt_screen, tick, baseline, refreshes, renders,
            tsleeps, alt_enters, alt_exits, screen>>

toprows == <<show_cpu, limit, snapshot, rows>>

topvars == <<rendervars, topctl, toprows>>

inspectvars == <<ipaths, iprobes, iresults>>

lockvars == <<lop, lockenv, findenv, llocked, lpids>>

vars == <<killvars, portvars, rmvars, topvars, inspectvars, lockvars>>

----------------------------------------------------------------------------
(***************************************************************************)
(* Lifecycle manager: core/process/mod.rs (and its copy in process.rs).    *)
(***************************************************************************)

\* sys.process(pid) on a fresh snapshot
Observe(p) == IF p \in procs THEN "present" ELSE "absent"

KillIdle ==
    /\ kpc = "idle"
    /\ kfn = "none"
    /\ kpid = 0
    /\ attempt = 0
    /\ signals = 0
    /\ accepted = 0
    /\ slept = 0
    /\ sleeps500 = 0
    /\ sleeps1000 = 0
    /\ snaps = 0
    /\ kfirst = "none"
    /\ klast = "none"
    /\ klastsig = "none"
    /\ kresult = "none"
    /\ kbatch = <<>>
    /\ kresults = <<>>

PortIdle ==
    /\ connections = <<>>
    /\ nrows = 0
    /\ replaced = 0
    /\ pop = "none"
    /\ preq = <<>>
    /\ pout = <<>>

RmIdle ==
    /\ fs = <<>>
    /\ windows = FALSE
    /\ rphase = "idle"
    /\ rimpl = "none"
    /\ rreq = <<>>
    /\ rrecursive = FALSE
    /\ rplan = <<>>
    /\ rdry = FALSE
    /\ rbulk = FALSE
    /\ rorder = <<>>
    /\ rresults = <<>>
    /\ rtouched = {}
    /\ ranyway = FALSE
    /\ rlock = [paths |-> {}, holders |-> {}]
    /\ rlog = <<>>
    /\ fsBefore = <<>>
    /\ procsBefore = {}
    /\ rplan2 = <<>>

RenderIdle ==
    /\ incremental = FALSE
    /\ last_frame = <<>>
    /\ shown = <<>>
    /\ stdout = <<>>

TopIdle ==
    /\ RenderIdle
    /\ tpc = "idle"
    /\ once = FALSE
    /\ use_alt_screen = FALSE
    /\ tick = 0
    /\ baseline = 0
    /\ refreshes = 0
    /\ renders = 0
    /\ tsleeps = 0
    /\ alt_enters = 0
    /\ alt_exits = 0
    /\ screen = "normal"
    /\ show_cpu = FALSE
    /\ limit = 0
    /\ snapshot = <<>>
    /\ rows = <<>>

InspectIdle ==
    /\ ipaths = <<>>
    /\ iprobes = <<>>
    /\ iresults = <<>>

\* a tool that printed nothing
Silent == [ok |-> TRUE, pids |-> <<>>]

LockIdle ==
    /\ lop = "none"
    /\ lockenv = [exists |-> FALSE, win |-> FALSE, representable |-> TRUE,
                  is_dir |-> FALSE, lsof |-> "exit1", open_write |-> "ok",
                  open_read |-> TRUE, powershell |-> "unavailable",
                  count |-> 0, rename |-> TRUE, read_dir |-> "ok"]
    /\ findenv = [exists |-> FALSE, win |-> FALSE, representable |-> TRUE,
                  handle |-> Silent, powershell |-> Silent, wmic |-> Silent,
                  lsof |-> Silent]
    /\ llocked = FALSE
    /\ lpids = <<>>

KillInit ==
    /\ procs \in SUBSET Pids
    /\ KillIdle
    /\ PortIdle
    /\ RmIdle
    /\ TopIdle
    /\ InspectIdle
    /\ LockIdle

SeqsUpTo(S, n) == UNION {[1..k -> S] : k \in 0..n}

\* The slices a caller passes: pids may repeat, as the slice is not a set.
Batches == SeqsUpTo(Pids, MaxBatch) \ {<<>>}

\* A caller invokes kill_processes(pids) or kill_processes_force(pids); the
\* iterator starts kill_process / kill_process_force on the first pid.
KillCall ==
    /\ kpc = "idle"
    /\ \E b \in Batches, f \in {"kill_process", "kill_process_force"} :
          /\ kbatch' = b
          /\ kpid' = b[1]
          /\ kfn' = f
    /\ kresults' = <<>>
    /\ kpc' = "check"
    /\ attempt' = 0
    /\ signals' = 0
    /\ accepted' = 0
    /\ slept' = 0
    /\ sleeps500' = 0
    /\ sleeps1000' = 0
    /\ snaps' = 0
    /\ kfirst' = "none"
    /\ klast' = "none"
    /\ klastsig' = "none"
    /\ kresult' = "none"
    /\ UNCHANGED procs

\* kill_process with the absent pid treated as already gone
KillProcessIdempotent ==
    /\ kpc = "check"
    /\ kfn = "kill_process"
    /\ snaps' = snaps + 1
    /\ kfirst' = Observe(kpid)
    /\ klast' = Observe(kpid)
    /\ IF kpid \in procs
         THEN \E ok \in BOOLEAN :
                /\ signals' = signals + 1
                /\ accepted' = accepted + (IF ok THEN 1 ELSE 0)
                /\ klastsig' = IF ok THEN "accepted" ELSE "rejected"
                /\ kresult' = IF ok THEN "ok" ELSE "err_denied"
         ELSE /\ kresult' = "ok"
              /\ UNCHANGED <<signals, accepted, klastsig>>
    /\ kpc' = "done"
    /\ UNCHANGED <<procs, kfn, kpid, attempt, slept, sleeps500, sleeps1000>>

\* kill_process: one snapshot, then a single process.kill()
KillProcess ==
    /\ kpc = "check"
    /\ kfn = "kill_process"
    /\ snaps' = snaps + 1
    /\ kfirst' = Observe(kpid)
    /\ klast' = Observe(kpid)
    /\ IF kpid \in procs
         THEN \E ok \in BOOLEAN :
                /\ signals' = signals + 1
                /\ accepted' = accepted + (IF ok THEN 1 ELSE 0)
                /\ klastsig' = IF ok THEN "accepted" ELSE "rejected"
                /\ kresult' = IF ok THEN "ok" ELSE "err_denied"
         ELSE /\ kresult' = "err_not_found"
              /\ UNCHANGED <<signals, accepted, klastsig>>
    /\ kpc' = "done"
    /\ UNCHANGED <<procs, kfn, kpid, attempt, slept, sleeps500, sleeps1000>>

\* The existence check without its early return
ForceCheckNoEarlyReturn ==
    /\ kpc = "check"
    /\ kfn = "kill_process_force"
    /\ snaps' = snaps + 1
    /\ kfirst' = Observe(kpid)
    /\ klast' = Observe(kpid)
    /\ attempt' = 1
    /\ kpc' = "attempt"
    /\ UNCHANGED <<procs, kfn, kpid, signals, accepted, slept, sleeps500,
                   sleeps1000, klastsig, kresult>>

\* kill_process_force, the existence check before the loop
ForceCheck ==
    /\ kpc = "check"
    /\ kfn = "kill_process_force"
    /\ snaps' = snaps + 1
    /\ kfirst' = Observe(kpid)
    /\ klast' = Observe(kpid)
    /\ IF kpid \in procs
         THEN /\ attempt' = 1
              /\ kpc' = "attempt"
              /\ UNCHANGED kresult
         ELSE /\ kresult' = "ok"
              /\ kpc' = "done"
              /\ UNCHANGED attempt
    /\ UNCHANGED <<procs, kfn, kpid, signals, accepted, slept, sleeps500,
                   sleeps1000, klastsig>>

\* A loop iteration that gives up on the first rejected signal
ForceSignalFailFast ==
    /\ kpc = "attempt"
    /\ snaps' = snaps + 1
    /\ klast' = Observe(kpid)
    /\ IF kpid \in procs
         THEN \E ok \in BOOLEAN :
                /\ signals' = signals + 1
                /\ klastsig' = IF ok THEN "accepted" ELSE "rejected"
                /\ IF ok
                     THEN /\ accepted' = accepted + 1
                          /\ slept' = slept + VerifySleepMs
                          /\ sleeps500' = sleeps500 + 1
                          /\ kpc' = "verify"
                          /\ UNCHANGED kresult
                     ELSE /\ kresult' = "err_denied"
                          /\ kpc' = "done"
                          /\ UNCHANGED <<accepted, slept, sleeps500>>
         ELSE /\ kresult' = "ok"
              /\ kpc' = "done"
              /\ UNCHANGED <<signals, accepted, klastsig, slept, sleeps500>>
    /\ UNCHANGED <<procs, kfn, kpid, attempt, sleeps1000, kfirst>>

\* One loop iteration up to its first sleep: snapshot, process.kill(),
\* and on an accepted signal the 500 ms sleep.
ForceSignal ==
    /\ kpc = "attempt"
    /\ snaps' = snaps + 1
    /\ klast' = Observe(kpid)
    /\ IF kpid \in procs
         THEN \E ok \in BOOLEAN :
                /\ signals' = signals + 1
                /\ klastsig' = IF ok THEN "accepted" ELSE "rejected"
                /\ IF ok
                     THEN /\ accepted' = accepted + 1
                          /\ slept' = slept + VerifySleepMs
                          /\ sleeps500' = sleeps500 + 1
                          /\ kpc' = "verify"
                          /\ UNCHANGED kresult
                     ELSE /\ IF attempt = MaxAttempts
                               THEN /\ kresult' = "err_denied"
                                    /\ kpc' = "done"
                               ELSE /\ kpc' = "between"
                                    /\ UNCHANGED kresult
                          /\ UNCHANGED <<accepted, slept, sleeps500>>
         ELSE /\ kresult' = "ok"
              /\ kpc' = "done"
              /\ UNCHANGED <<signals, accepted, klastsig, slept, sleeps500>>
    /\ UNCHANGED <<procs, kfn, kpid, attempt, sleeps1000, kfirst>>

\* A verification that takes the accepted signal for the exit
ForceVerifyTrustsSignal ==
    /\ kpc = "verify"
    /\ snaps' = snaps + 1
    /\ klast' = Observe(kpid)
    /\ kresult' = "ok"
    /\ kpc' = "done"
    /\ UNCHANGED <<procs, kfn, kpid, attempt, signals, accepted, slept,
                   sleeps500, sleeps1000, kfirst, klastsig>>

\* After the 500 ms sleep: refresh_processes and look for the pid again.
ForceVerify ==
    /\ kpc = "verify"
    /\ snaps' = snaps + 1
    /\ klast' = Observe(kpid)
    /\ IF kpid \in procs
         THEN /\ kpc' = "between"
              /\ UNCHANGED kresult
         ELSE /\ kresult' = "ok"
              /\ kpc' = "done"
    /\ UNCHANGED <<procs, kfn, kpid, attempt, signals, accepted, slept,
                   sleeps500, sleeps1000, kfirst, klastsig>>

\* The end of a loop iteration that sleeps after every attempt
ForceBetweenAlwaysSleep ==
    /\ kpc = "between"
    /\ slept' = slept + RetrySleepMs
    /\ sleeps1000' = sleeps1000 + 1
    /\ IF attempt < MaxAttempts
         THEN /\ attempt' = attempt + 1
              /\ kpc' = "attempt"
              /\ UNCHANGED kresult
         ELSE /\ kresult' = "err_still_running"
              /\ kpc' = "done"
              /\ UNCHANGED attempt
    /\ UNCHANGED <<procs, kfn, kpid, signals, accepted, sleeps500, snaps,
                   kfirst, klast, klastsig>>

\* The end of a loop iteration: sleep 1000 ms unless it was the last one,
\* and fail once the loop is exhausted.
ForceBetween ==
    /\ kpc = "between"
    /\ IF attempt < MaxAttempts
         THEN /\ slept' = slept + RetrySleepMs
              /\ sleeps1000' = sleeps1000 + 1
              /\ attempt' = attempt + 1
              /\ kpc' = "attempt"
              /\ UNCHANGED kresult
         ELSE /\ kresult' = "err_still_running"
              /\ kpc' = "done"
              /\ UNCHANGED <<slept, sleeps1000, attempt>>
    /\ UNCHANGED <<procs, kfn, kpid, signals, accepted, sleeps500, snaps,
                   kfirst, klast, klastsig>>

\* The closure of pids.iter().map(..) pushes (pid, result); the iterator then
\* starts the call for the next pid, or collect() returns the vector.
KillReturn ==
    /\ kpc = "done"
    /\ kresults' = Append(kresults, [pid |-> kpid, result |-> kresult])
    /\ IF Len(kresults) + 1 < Len(kbatch)
         THEN /\ kpid' = kbatch[Len(kresults) + 2]
              /\ kpc' = "check"
              /\ attempt' = 0
              /\ signals' = 0
              /\ accepted' = 0
              /\ slept' = 0
              /\ sleeps500' = 0
              /\ sleeps1000' = 0
              /\ snaps' = 0
              /\ kfirst' = "none"
              /\ klast' = "none"
              /\ klastsig' = "none"
              /\ kresult' = "none"
         ELSE /\ kpc' = "idle"
              /\ UNCHANGED <<kpid, attempt, signals, accepted, slept,
                             sleeps500, sleeps1000, snaps, kfirst, klast,
                             klastsig, kresult>>
    /\ UNCHANGED <<procs, kfn, kbatch>>

\* The operating system: a process exits (after a signal or by itself).
ProcExit ==
    /\ \E p \in procs : procs' = procs \ {p}
    /\ UNCHANGED <<kpc, kfn, kpid, attempt, signals, accepted, slept,
                   sleeps500, sleeps1000, snaps, kfirst, klast, klastsig,
                   kresult>>

\* The operating system: a process starts.
ProcSpawn ==
    /\ \E p \in Pids \ procs : procs' = procs \cup {p}
    /\ UNCHANGED <<kpc, kfn, kpid, attempt, signals, accepted, slept,
                   sleeps500, sleeps1000, snaps, kfirst, klast, klastsig,
                   kresult>>

KillStep ==
    \/ KillProcess
    \/ ForceCheck
    \/ ForceSignal
    \/ ForceVerify
    \/ ForceBetween

KillNext ==
    \/ KillCall /\ UNCHANGED <<portvars, rmvars, topvars, inspectvars, lockvars>>
    \/ KillStep /\ UNCHANGED <<killbatch, portvars, rmvars, topvars, inspectvars, lockvars>>
    \/ KillReturn /\ UNCHANGED <<portvars, rmvars, topvars, inspectvars, lockvars>>
    \/ ProcExit /\ UNCHANGED <<killbatch, portvars, rmvars, topvars, inspectvars, lockvars>>
    \/ ProcSpawn /\ UNCHANGED <<killbatch, portvars, rmvars, topvars, inspectvars, lockvars>>

SpecKill == KillInit /\ [][KillNext]_vars

\* The thread running the call is never suspended forever.
FairSpecKill ==
    /\ KillInit
    /\ [][KillNext]_vars
    /\ WF_vars(KillStep /\ UNCHANGED <<killbatch, portvars, rmvars, topvars, inspectvars, lockvars>>)

----------------------------------------------------------------------------
(***************************************************************************)
(* Connection resolver: port.rs.  A row of /proc/net/{tcp,tcp6,udp,udp6}   *)
(* is modelled after parsing: its local port, and the result of            *)
(* find_pid_by_inode as a set ({pid} for Ok(pid), {} for Err).  Rows that  *)
(* do not parse are skipped by parse_proc_net and are left out.  The rows  *)
(* are read one by one by get_network_connections, at the start of both    *)
(* find_processes_by_ports and list_all_ports.                             *)
(***************************************************************************)

Rows == [port : Ports, pid : {{}} \cup {{p} : p \in Pids}]

\* HashMap::insert: a later row for the same port replaces the earlier one
Insert(conn, port, pid) ==
    [q \in DOMAIN conn \cup {port} |-> IF q = port THEN pid ELSE conn[q]]

\* the loop of find_processes_by_ports over the requested ports, in order
RECURSIVE FindLoop(_, _, _)
FindLoop(ports, conn, sys) ==
    IF ports = <<>>
      THEN <<>>
      ELSE LET port == Head(ports)
               rest == FindLoop(Tail(ports), conn, sys)
           IN  IF port \in DOMAIN conn /\ conn[port] \in sys
                 THEN <<[port |-> port, pid |-> conn[port]]>> \o rest
                 ELSE rest

\* the loop of list_all_ports over the HashMap, in the order it iterates
RECURSIVE ListLoop(_, _, _)
ListLoop(order, conn, sys) ==
    IF order = <<>>
      THEN <<>>
      ELSE LET port == Head(order)
               rest == ListLoop(Tail(order), conn, sys)
           IN  IF conn[port] \in sys
                 THEN <<[port |-> port, pid |-> conn[port]]>> \o rest
                 ELSE rest

\* the orders in which a HashMap with key set S may iterate
IterOrders(S) ==
    {o \in [1..Cardinality(S) -> S] : \A i, j \in DOMAIN o : i # j => o[i] # o[j]}

\* insertion before the first element with a greater port (stable)
RECURSIVE InsertByPort(_, _)
InsertByPort(x, sorted) ==
    IF sorted = <<>>
      THEN <<x>>
      ELSE IF Head(sorted).port > x.port
             THEN <<x>> \o sorted
             ELSE <<Head(sorted)>> \o InsertByPort(x, Tail(sorted))

RECURSIVE SortedByPort(_)
SortedByPort(infos) ==
    IF infos = <<>>
      THEN <<>>
      ELSE InsertByPort(infos[Len(infos)],
                        SortedByPort(SubSeq(infos, 1, Len(infos) - 1)))

\* list_all_ports without its final sort
Unsorted(infos) == infos

\* result.sort_by_key(|info| info.port)
SortByKey(infos) == SortedByPort(infos)

PortInit ==
    /\ procs \in SUBSET Pids
    /\ KillIdle
    /\ PortIdle
    /\ RmIdle
    /\ TopIdle
    /\ InspectIdle
    /\ LockIdle

\* parse_proc_net, one row: connections.insert(port, pid) when
\* find_pid_by_inode found the owner
ParseProcNetRow ==
    /\ pop = "none"
    /\ nrows < MaxRows
    /\ \E r \in Rows :
          IF r.pid = {}
            THEN UNCHANGED <<connections, replaced>>
            ELSE /\ connections' =
                       Insert(connections, r.port, CHOOSE p \in r.pid : TRUE)
                 /\ replaced' = replaced +
                       (IF r.port \in DOMAIN connections THEN 1 ELSE 0)
    /\ nrows' = nrows + 1
    /\ UNCHANGED <<pop, preq, pout, killvars>>

\* find_processes_by_ports, after get_network_connections
FindProcessesByPorts ==
    /\ pop = "none"
    /\ \E ports \in SeqsUpTo(Ports, MaxReq) :
          /\ preq' = ports
          /\ pout' = FindLoop(ports, connections, procs)
    /\ pop' = "find"
    /\ UNCHANGED <<connections, nrows, replaced, killvars>>

\* list_all_ports, after get_network_connections
ListAllPorts ==
    /\ pop = "none"
    /\ \E order \in IterOrders(DOMAIN connections) :
          pout' = SortByKey(ListLoop(order, connections, procs))
    /\ pop' = "list"
    /\ UNCHANGED <<connections, nrows, replaced, preq, killvars>>

PortNext ==
    \/ ParseProcNetRow /\ UNCHANGED <<rmvars, topvars, inspectvars, lockvars>>
    \/ FindProcessesByPorts /\ UNCHANGED <<rmvars, topvars, inspectvars, lockvars>>
    \/ ListAllPorts /\ UNCHANGED <<rmvars, topvars, inspectvars, lockvars>>

SpecPort == PortInit /\ [][PortNext]_vars

----------------------------------------------------------------------------
(***************************************************************************)
(* Removal engine: core/fs_ops/mod.rs, called by cli/handlers.rs.  A path  *)
(* is the sequence of its components; the filesystem maps the existing     *)
(* paths to their kind.  The filesystem is built while no removal runs.    *)
(***************************************************************************)

\* the paths that may exist: a tree under "a" and a second root "b"
Paths == {<<"a">>, <<"a", "x">>, <<"a", "d">>, <<"a", "d", "y">>, <<"b">>}

\* the command lines: one path, two unrelated paths, a directory after one
\* of its subdirectories
Requests ==
    {<<(<<"a">>)>>, <<(<<"a", "d">>)>>, <<(<<"b">>)>>,
     <<(<<"a">>), (<<"b">>)>>, <<(<<"a", "d">>), (<<"a">>)>>}

\* "symlink" points to something that exists outside the tree, "uplink" to
\* the directory that holds it
Links == {"symlink", "uplink"}

Kinds == {"file", "dir"} \cup Links

\* Path::exists (every link has an existing target)
Exists(f, p) == p \in DOMAIN f

\* Path::parent
Parent(p) == SubSeq(p, 1, Len(p) - 1)

\* Path::starts_with: q is a component-wise prefix of p
StartsWith(p, q) == Len(q) <= Len(p) /\ SubSeq(p, 1, Len(q)) = q

\* the entries read_dir(d) yields
Children(f, d) == {p \in DOMAIN f : Len(p) = Len(d) + 1 /\ StartsWith(p, d)}

Subtree(f, d) == {p \in DOMAIN f : StartsWith(p, d)}

Without(f, S) == [p \in DOMAIN f \ S |-> f[p]]

\* Path::file_name
FileName(p) == p[Len(p)]

\* Path resolution by the operating system.  Reach follows the links among
\* the parent components of p and not p itself; Resolve follows p as well.
\* <<>> stands for a place outside the modelled tree (the target of a
\* "symlink", the directory holding a root) or for no place at all.
RECURSIVE Reach(_, _), Resolve(_, _)
Reach(f, p) ==
    IF p \in DOMAIN f
      THEN p
      ELSE IF Len(p) <= 1
        THEN <<>>
        ELSE LET r == Resolve(f, Parent(p))
             IN  IF r = <<>> THEN <<>> ELSE r \o <<FileName(p)>>

Resolve(f, p) ==
    LET q == Reach(f, p)
    IN  IF q \notin DOMAIN f
          THEN <<>>
          ELSE IF f[q] = "uplink"
            THEN Parent(q)
            ELSE IF f[q] = "symlink" THEN <<>> ELSE q

\* path.symlink_metadata(): the kind of p itself, a link not followed
KindAt(f, p) ==
    LET q == Reach(f, p)
    IN  IF q \in DOMAIN f THEN f[q] ELSE "missing"

\* fs::read_dir(d): the entries of the directory d resolves to, each named
\* beneath d
ReadDir(f, d) ==
    LET r == Resolve(f, d)
    IN  IF r \notin DOMAIN f
          THEN {}
          ELSE {d \o <<FileName(c)>> : c \in Children(f, r)}

\* a test that follows a link met on the way: path.is_dir()
IsDirFollowed(f, p) ==
    KindAt(f, p) = "dir" \/ (p \in DOMAIN f /\ f[p] \in Links)

\* is_dir = metadata.is_dir() && !is_symlink, metadata from
\* symlink_metadata(); path.is_dir() && !path.is_symlink() in file.rs
IsRealDir(f, p) == KindAt(f, p) = "dir"

\* FileInfo { path, is_dir, is_symlink } from symlink_metadata
FileInfoOf(f, p) ==
    [path |-> p, is_dir |-> KindAt(f, p) = "dir",
     is_symlink |-> KindAt(f, p) \in Links]

Cat(A, B) == {x \o y : x \in A, y \in B}

\* a walk that pushes the directory before it descends into it
PreOrder(walks, own) == Cat({<<own>>}, walks)

\* collect_dir_files(&path, files)?; files.push(FileInfo { path, .. }): the
\* directory's own entry follows what the walk of the directory pushed
PostOrder(walks, own) == Cat(walks, {<<own>>})

\* collect_dir_files: the sequences it may push for the entries of dir,
\* one per order in which read_dir may yield them
RECURSIVE CoreDirWalks(_, _), CoreOrderWalks(_, _)
CoreDirWalks(f, dir) ==
    UNION {CoreOrderWalks(f, o) : o \in IterOrders(ReadDir(f, dir))}

CoreOrderWalks(f, order) ==
    IF order = <<>>
      THEN {<<>>}
      ELSE LET p == Head(order)
               here == IF IsRealDir(f, p)
                         THEN PostOrder(CoreDirWalks(f, p),
                                        [path |-> p, is_dir |-> TRUE,
                                         is_symlink |-> FALSE])
                         ELSE {<<FileInfoOf(f, p)>>}
           IN  Cat(here, CoreOrderWalks(f, Tail(order)))

\* validate_paths
ValidatePaths(f, paths) == \A i \in DOMAIN paths : Exists(f, paths[i])

\* a check that takes every directory for empty
AnyDirIsEmpty(f, p) == TRUE

\* path.read_dir()?.next().is_some() is false
IsEmptyDir(f, p) == Children(f, p) = {}

\* collect_files_to_remove: the plans it may return; the empty set is Err
RECURSIVE CoreCollect(_, _, _)
CoreCollect(f, paths, recursive) ==
    IF paths = <<>>
      THEN {<<>>}
      ELSE LET p == Head(paths)
               here ==
                 IF p \notin DOMAIN f
                   THEN {}
                   ELSE IF IsRealDir(f, p)
                     THEN IF recursive
                            THEN PostOrder(CoreDirWalks(f, p),
                                           [path |-> p, is_dir |-> TRUE,
                                            is_symlink |-> FALSE])
                            ELSE IF ~IsEmptyDir(f, p)
                                   THEN {}
                                   ELSE {<<FileInfoOf(f, p)>>}
                     ELSE {<<FileInfoOf(f, p)>>}
           IN  Cat(here, CoreCollect(f, Tail(paths), recursive))

\* depth_a.cmp(&depth_b): parents before their children
ShallowerFirst(a, b) == Len(a.path) < Len(b.path)

\* depth_b.cmp(&depth_a) is Less: a has more components than b
DeeperFirst(a, b) == Len(a.path) > Len(b.path)

\* the comparator of sorted.sort_by returns Less for (a, b)
Before(a, b) ==
    IF a.is_dir /\ ~b.is_dir
      THEN FALSE
      ELSE IF ~a.is_dir /\ b.is_dir
             THEN TRUE
             ELSE DeeperFirst(a, b)

RECURSIVE InsertSorted(_, _)
InsertSorted(x, sorted) ==
    IF sorted = <<>>
      THEN <<x>>
      ELSE IF Before(x, Head(sorted))
             THEN <<x>> \o sorted
             ELSE <<Head(sorted)>> \o InsertSorted(x, Tail(sorted))

\* sort_by is stable: equal entries keep the order of the plan
RECURSIVE SortFiles(_)
SortFiles(files) ==
    IF files = <<>>
      THEN <<>>
      ELSE InsertSorted(files[Len(files)],
                        SortFiles(SubSeq(files, 1, Len(files) - 1)))

\* What the operating system refuses during one remove_files call: at most
\* one path, either with an error no fallback cures, or with
\* PermissionDenied that the fallback (clearing read-only, remove_dir_all)
\* cures.
NoDeny == [paths |-> {}, fixable |-> FALSE]

PlanPaths(files) == {files[i].path : i \in DOMAIN files}

DenyChoices(files) ==
    {NoDeny} \cup
    {[paths |-> {p}, fixable |-> b] : p \in PlanPaths(files), b \in BOOLEAN}

\* remove_entry: the filesystem afterwards, whether it returned Ok, and the
\* paths it issued a delete or an attribute change on
RemoveEntry(f, e, deny, win) ==
    IF e.path \notin DOMAIN f
      THEN [fs |-> f, ok |-> FALSE, touched |-> {e.path}]
      ELSE IF e.is_symlink \/ ~e.is_dir
        THEN IF e.path \in deny.paths /\ ~(win /\ e.is_symlink /\ deny.fixable)
               THEN [fs |-> f, ok |-> FALSE, touched |-> {e.path}]
               ELSE [fs |-> Without(f, {e.path}), ok |-> TRUE,
                     touched |-> {e.path}]
        ELSE IF e.path \in deny.paths
               THEN IF deny.fixable
                      THEN [fs |-> Without(f, Subtree(f, e.path)), ok |-> TRUE,
                            touched |-> Subtree(f, e.path)]
                      ELSE [fs |-> f, ok |-> FALSE, touched |-> {e.path}]
               ELSE IF Children(f, e.path) = {}
                      THEN [fs |-> Without(f, {e.path}), ok |-> TRUE,
                            touched |-> {e.path}]
                      ELSE [fs |-> f, ok |-> FALSE, touched |-> {e.path}]

\* a loop body that deletes even in a dry run
EntryIgnoringDryRun(f, e, dry, deny, win) == RemoveEntry(f, e, deny, win)

\* the loop body: let result = if dry_run { Ok(()) } else { remove_entry(..) }
EntryResult(f, e, dry, deny, win) ==
    IF dry
      THEN [fs |-> f, ok |-> TRUE, touched |-> {}]
      ELSE RemoveEntry(f, e, deny, win)

\* the loop of remove_files_individually over the sorted entries
RECURSIVE RemoveLoop(_, _, _, _, _)
RemoveLoop(f, sorted, dry, deny, win) ==
    IF sorted = <<>>
      THEN [fs |-> f, results |-> <<>>, touched |-> {}]
      ELSE LET e == Head(sorted)
               r == EntryResult(f, e, dry, deny, win)
               rest == RemoveLoop(r.fs, Tail(sorted), dry, deny, win)
           IN  [fs |-> rest.fs,
                results |-> <<[path |-> e.path, ok |-> r.ok,
                               err |-> IF r.ok THEN "none" ELSE "io"]>>
                            \o rest.results,
                touched |-> r.touched \cup rest.touched]

\* remove_files_individually: sort, then the loop
RemoveFilesIndividually(f, files, dry, deny, win) ==
    RemoveLoop(f, SortFiles(files), dry, deny, win)

\* try_windows_bulk_remove, files.iter().find(..): <<root>>, or <<>> for None
RootDir(files) ==
    LET roots == {i \in DOMAIN files :
                    /\ files[i].is_dir
                    /\ ~\E j \in DOMAIN files :
                          /\ files[j].path # files[i].path
                          /\ StartsWith(files[i].path, files[j].path)}
    IN  IF roots = {}
          THEN <<>>
          ELSE <<files[CHOOSE i \in roots : \A j \in roots : i <= j]>>

\* remove_dir_all_with_symlinks clears read-only attributes itself; it fails
\* on an error that nothing cures, anywhere in the tree
BulkFails(f, root, deny) ==
    \/ root \notin DOMAIN f
    \/ ~deny.fixable /\ deny.paths \cap Subtree(f, root) # {}

\* what a failed remove_dir_all_with_symlinks may have deleted before it
\* failed: whole subtrees that hold no refused path
PartialRemovals(f, root, deny) ==
    {R \in SUBSET (Subtree(f, root) \ {root}) :
        \A p \in R : /\ Subtree(f, p) \subseteq R
                     /\ deny.paths \cap Subtree(f, p) = {}}

(***************************************************************************)
(* The older removal engine of file.rs (entry point main.rs).              *)
(***************************************************************************)

\* collect_dir_files of file.rs: files and links in read_dir order (a link
\* to the directory or to an ancestor is skipped), then the subdirectories,
\* then the directory itself
RECURSIVE LegacyDirWalks(_, _), LegacySubdirWalks(_, _)
LegacyDirWalks(f, dir) ==
    UNION {LET seen == SelectSeq(o, LAMBDA p : KindAt(f, p) # "uplink")
               keep == SelectSeq(seen, LAMBDA p : ~IsRealDir(f, p))
               files == [i \in DOMAIN keep |->
                           [path |-> keep[i], is_dir |-> FALSE,
                            is_symlink |-> KindAt(f, keep[i]) \in Links]]
               subdirs == SelectSeq(seen, LAMBDA p : IsRealDir(f, p))
           IN  PostOrder(Cat({files}, LegacySubdirWalks(f, subdirs)),
                         [path |-> dir, is_dir |-> TRUE, is_symlink |-> FALSE])
           : o \in IterOrders(ReadDir(f, dir))}

LegacySubdirWalks(f, subdirs) ==
    IF subdirs = <<>>
      THEN {<<>>}
      ELSE Cat(LegacyDirWalks(f, Head(subdirs)),
               LegacySubdirWalks(f, Tail(subdirs)))

\* collect_files_to_remove of file.rs: the plans it may return, {} for Err
RECURSIVE LegacyCollect(_, _, _)
LegacyCollect(f, paths, recursive) ==
    IF paths = <<>>
      THEN {<<>>}
      ELSE LET p == Head(paths)
               here ==
                 IF ~Exists(f, p)
                   THEN {}
                   ELSE IF f[p] # "dir"
                     THEN {<<FileInfoOf(f, p)>>}
                     ELSE IF recursive
                            THEN LegacyDirWalks(f, p)
                            ELSE {}
           IN  Cat(here, LegacyCollect(f, Tail(paths), recursive))

\* What holds a path open during one remove_files call: at most one path,
\* held by one process, or by nobody that can be identified.
NoLock == [paths |-> {}, holders |-> {}]

LockChoices(files) ==
    {NoLock} \cup
    {[paths |-> {p}, holders |-> H] :
        p \in PlanPaths(files), H \in {{}} \cup {{q} : q \in Pids}}

\* nothing in the way of remove_files
Calm == [deny |-> NoDeny, lock |-> NoLock, killable |-> {}]

\* the environment of one remove_files call: nothing in the way, one path
\* the operating system refuses, or one path held open; killable are the
\* holders kill_processes_force manages to end
Obstacles(files) ==
    {[deny |-> d, lock |-> NoLock, killable |-> {}] : d \in DenyChoices(files)}
    \cup
    {[deny |-> NoDeny, lock |-> l, killable |-> K] :
        l \in LockChoices(files) \ {NoLock}, K \in {{}, Pids}}

\* process::is_file_locked
IsFileLocked(f, pr, p, lock) ==
    /\ Exists(f, p)
    /\ p \in lock.paths
    /\ (lock.holders = {} \/ lock.holders \cap pr # {})

\* process::find_processes_by_file
FindProcessesByFile(f, pr, p, lock) ==
    IF Exists(f, p) /\ p \in lock.paths THEN lock.holders \cap pr ELSE {}

\* remove_directory_with_fallback / remove_file_with_fallback; held: the
\* path is still held open
LegacyDelete(f, e, deny, win, held) ==
    IF e.is_dir
      THEN IF e.path \notin DOMAIN f
             THEN [fs |-> f, ok |-> TRUE, touched |-> {}]
             ELSE IF Children(f, e.path) # {}
               THEN [fs |-> f, ok |-> FALSE, touched |-> {}]
               ELSE IF (held /\ win)
                       \/ (e.path \in deny.paths /\ ~(win /\ deny.fixable))
                 THEN [fs |-> f, ok |-> FALSE, touched |-> {e.path}]
                 ELSE [fs |-> Without(f, {e.path}), ok |-> TRUE,
                       touched |-> {e.path}]
      ELSE IF e.path \notin DOMAIN f
             THEN [fs |-> f, ok |-> FALSE, touched |-> {e.path}]
             ELSE IF (held /\ win)
                     \/ (e.path \in deny.paths
                           /\ ~(win /\ deny.fixable /\ f[e.path] \notin Links))
               THEN [fs |-> f, ok |-> FALSE, touched |-> {e.path}]
               ELSE [fs |-> Without(f, {e.path}), ok |-> TRUE,
                     touched |-> {e.path}]

\* one entry of the trace of a remove_files call: "attempt" (n-th attempt on
\* path), "kill" (kill_process_force on pid n), "sleep" (n milliseconds),
\* "delete" (a delete call on path), "bulk" (remove_dir_all on the root)
Event(ev, path, n) == [ev |-> ev, path |-> path, n |-> n]

\* remove_files_individually: one remove_entry call per sorted entry
RECURSIVE CoreTrace(_)
CoreTrace(sorted) ==
    IF sorted = <<>>
      THEN <<>>
      ELSE <<Event("attempt", Head(sorted).path, 1),
             Event("delete", Head(sorted).path, 0)>> \o CoreTrace(Tail(sorted))

\* the calls remove_files of core/fs_ops made; bulk: it returned from
\* try_windows_bulk_remove
CoreLog(files, dry, win, bulk) ==
    IF dry
      THEN <<>>
      ELSE LET root == IF win THEN RootDir(files) ELSE <<>>
               tried == IF root = <<>>
                          THEN <<>>
                          ELSE <<Event("bulk", root[1].path, 0)>>
           IN  IF bulk THEN tried ELSE tried \o CoreTrace(SortFiles(files))

\* kill_processes_force(&pids): one kill_process_force per holder
RECURSIVE KillEvents(_)
KillEvents(pids) ==
    IF pids = {}
      THEN <<>>
      ELSE LET q == CHOOSE x \in pids : \A y \in pids : x <= y
           IN  <<Event("kill", <<>>, q)>> \o KillEvents(pids \ {q})

\* attempt_remove_file: filesystem, processes, trace and result after one
\* attempt; killable are the holders kill_processes_force manages to end
AttemptRemoveFile(st, e, anyway, n, lock, killable, deny, win) ==
    LET locked == IsFileLocked(st.fs, st.procs, e.path, lock)
        pids == FindProcessesByFile(st.fs, st.procs, e.path, lock)
        started == st.log \o <<Event("attempt", e.path, n)>>
        procs2 == IF locked /\ anyway
                    THEN st.procs \ (pids \cap killable)
                    ELSE st.procs
        log2 == IF locked /\ anyway /\ pids # {}
                  THEN started \o KillEvents(pids)
                               \o <<Event("sleep", <<>>, UnlockSleepMs)>>
                  ELSE started
    IN  IF locked /\ ~anyway
          THEN [fs |-> st.fs, procs |-> st.procs, ok |-> FALSE,
                err |-> "locked", touched |-> st.touched, log |-> started]
          ELSE IF locked /\ pids = {} /\ n = 1
            THEN [fs |-> st.fs, procs |-> st.procs, ok |-> FALSE,
                  err |-> "unidentifiable", touched |-> st.touched,
                  log |-> started]
            ELSE LET d == LegacyDelete(st.fs, e, deny, win,
                                       IsFileLocked(st.fs, procs2, e.path,
                                                    lock))
                 IN  [fs |-> d.fs, procs |-> procs2, ok |-> d.ok,
                      err |-> IF d.ok THEN "none" ELSE "io",
                      touched |-> st.touched \cup d.touched,
                      log |-> log2 \o [i \in 1..Cardinality(d.touched) |->
                                         Event("delete", e.path, 0)]]

\* remove_single_file: for attempt in 1..=max_retries
RECURSIVE RemoveSingleFile(_, _, _, _, _, _, _, _)
RemoveSingleFile(st, e, anyway, n, lock, killable, deny, win) ==
    LET r == AttemptRemoveFile(st, e, anyway, n, lock, killable, deny, win)
    IN  IF r.ok \/ n >= MaxRetries
          THEN r
          ELSE RemoveSingleFile(
                   [fs |-> r.fs, procs |-> r.procs, touched |-> r.touched,
                    log |-> r.log \o <<Event("sleep", <<>>, BackoffMs * n)>>],
                   e, anyway, n + 1, lock, killable, deny, win)

\* the loop body: if dry_run { Ok(()) } else { remove_single_file(..) }
LegacyEntryResult(st, e, dry, anyway, lock, killable, deny, win) ==
    IF dry
      THEN [fs |-> st.fs, procs |-> st.procs, ok |-> TRUE, err |-> "none",
            touched |-> st.touched, log |-> st.log]
      ELSE RemoveSingleFile(st, e, anyway, 1, lock, killable, deny, win)

\* the loop of remove_files of file.rs over the sorted entries
RECURSIVE LegacyLoop(_, _, _, _, _, _, _, _)
LegacyLoop(st, sorted, dry, anyway, lock, killable, deny, win) ==
    IF sorted = <<>>
      THEN [fs |-> st.fs, procs |-> st.procs, results |-> <<>>,
            touched |-> st.touched, log |-> st.log]
      ELSE LET e == Head(sorted)
               r == LegacyEntryResult(st, e, dry, anyway, lock, killable,
                                      deny, win)
               rest == LegacyLoop(
                           [fs |-> r.fs, procs |-> r.procs,
                            touched |-> r.touched, log |-> r.log],
                           Tail(sorted), dry, anyway, lock, killable, deny, win)
           IN  [fs |-> rest.fs, procs |-> rest.procs,
                results |-> <<[path |-> e.path, ok |-> r.ok, err |-> r.err]>>
                            \o rest.results,
                touched |-> rest.touched, log |-> rest.log]

\* what a held path does to remove_entry, which makes no lock check: on
\* Windows the delete call fails with a sharing violation, elsewhere an open
\* file is unlinked all the same
CoreDeny(ob, f, pr, win) ==
    IF ob.lock # NoLock
      THEN IF win /\ \E p \in ob.lock.paths : IsFileLocked(f, pr, p, ob.lock)
             THEN [paths |-> ob.lock.paths, fixable |-> FALSE]
             ELSE NoDeny
      ELSE ob.deny

\* handle_remove: validate_paths, then collect_files_to_remove
CorePlan ==
    /\ rphase = "idle"
    /\ \E paths \in Requests, recursive \in BOOLEAN :
          /\ rreq' = paths
          /\ rrecursive' = recursive
          /\ LET plans == IF ValidatePaths(fs, paths)
                            THEN CoreCollect(fs, paths, recursive)
                            ELSE {}
             IN  IF plans = {}
                   THEN /\ rphase' = "plan_failed"
                        /\ rplan' = <<>>
                   ELSE /\ rphase' = "planned"
                        /\ \E plan \in plans : rplan' = plan
    /\ rimpl' = "core"
    /\ UNCHANGED <<procs, fs, windows, rdry, rbulk, rorder, rresults, rtouched, ranyway, rlock, rlog,
                   fsBefore, procsBefore, rplan2>>

\* remove_files of core/fs_ops
CoreRemoveFiles ==
    /\ rphase = "planned"
    /\ rimpl = "core"
    /\ \E dry \in BOOLEAN, anyway \in BOOLEAN :
       \E ob \in (IF dry THEN {Calm} ELSE Obstacles(rplan)) :
          /\ rdry' = dry
          /\ ranyway' = anyway
          /\ rlock' = ob.lock
          /\ LET root == IF windows THEN RootDir(rplan) ELSE <<>>
                 deny == CoreDeny(ob, fs, procs, windows)
             IN  IF root # <<>> /\ dry
                   THEN /\ rresults' = <<[path |-> root[1].path, ok |-> TRUE,
                                          err |-> "none"]>>
                        /\ rtouched' = {}
                        /\ rbulk' = TRUE
                        /\ rorder' = <<>>
                        /\ fs' = fs
                   ELSE IF root # <<>> /\ ~BulkFails(fs, root[1].path, deny)
                     THEN /\ rresults' = <<[path |-> root[1].path, ok |-> TRUE,
                                            err |-> "none"]>>
                          /\ rtouched' = Subtree(fs, root[1].path)
                          /\ rbulk' = TRUE
                          /\ rorder' = <<>>
                          /\ fs' = Without(fs, Subtree(fs, root[1].path))
                     ELSE \E part \in (IF root # <<>>
                                         THEN PartialRemovals(fs, root[1].path, deny)
                                         ELSE {{}}) :
                            \E out \in {RemoveFilesIndividually(
                                           Without(fs, part), rplan, dry,
                                           deny, windows)} :
                                /\ rresults' = out.results
                                /\ rtouched' = part \cup out.touched
                                             \cup (IF root # <<>>
                                                     THEN deny.paths
                                                     ELSE {})
                                /\ rbulk' = FALSE
                                /\ rorder' = SortFiles(rplan)
                                /\ fs' = out.fs
    /\ rlog' = CoreLog(rplan, rdry', windows, rbulk')
    /\ rphase' = "executed"
    /\ fsBefore' = fs
    /\ procsBefore' = procs
    /\ UNCHANGED <<procs, windows, rimpl, rreq, rrecursive, rplan, rplan2>>

\* handle_remove of main.rs: collect_files_to_remove of file.rs
LegacyPlan ==
    /\ rphase = "idle"
    /\ \E paths \in Requests, recursive \in BOOLEAN :
          /\ rreq' = paths
          /\ rrecursive' = recursive
          /\ LET plans == LegacyCollect(fs, paths, recursive)
             IN  IF plans = {}
                   THEN /\ rphase' = "plan_failed"
                        /\ rplan' = <<>>
                   ELSE /\ rphase' = "planned"
                        /\ \E plan \in plans : rplan' = plan
    /\ rimpl' = "legacy"
    /\ UNCHANGED <<procs, fs, windows, rdry, rbulk, rorder, rresults, rtouched, ranyway, rlock, rlog,
                   fsBefore, procsBefore, rplan2>>

\* remove_files of file.rs
LegacyRemoveFiles ==
    /\ rphase = "planned"
    /\ rimpl = "legacy"
    /\ \E dry \in BOOLEAN, anyway \in BOOLEAN :
       \E ob \in (IF dry THEN {Calm} ELSE Obstacles(rplan)) :
          \E out \in {LegacyLoop([fs |-> fs, procs |-> procs,
                                   touched |-> {}, log |-> <<>>],
                                  SortFiles(rplan), dry, anyway, ob.lock,
                                  ob.killable, ob.deny, windows)} :
              /\ rdry' = dry
              /\ ranyway' = anyway
              /\ rlock' = ob.lock
              /\ rlog' = out.log
              /\ rresults' = out.results
              /\ rtouched' = out.touched
              /\ fs' = out.fs
              /\ procs' = out.procs
    /\ rbulk' = FALSE
    /\ rorder' = SortFiles(rplan)
    /\ rphase' = "executed"
    /\ fsBefore' = fs
    /\ procsBefore' = procs
    /\ UNCHANGED <<windows, rimpl, rreq, rrecursive, rplan, rplan2>>

\* collect_files_to_remove once more, on the filesystem a dry run left
RePlan ==
    /\ rphase = "executed"
    /\ rdry
    /\ LET plans == IF rimpl = "core"
                      THEN (IF ValidatePaths(fs, rreq)
                              THEN CoreCollect(fs, rreq, rrecursive)
                              ELSE {})
                      ELSE LegacyCollect(fs, rreq, rrecursive)
       IN  IF plans = {}
             THEN rplan2' = <<>>
             ELSE \E plan \in plans : rplan2' = plan
    /\ rphase' = "replanned"
    /\ UNCHANGED <<procs, fs, windows, rimpl, rreq, rrecursive, rplan, rdry,
                   rbulk, rorder, rresults, rtouched, ranyway, rlock, rlog, fsBefore, procsBefore>>

\* another program creates a file, a directory or a symbolic link
FsCreate ==
    /\ rphase = "idle"
    /\ \E new \in Paths \ DOMAIN fs, k \in Kinds :
          /\ Len(new) > 1 => /\ Parent(new) \in DOMAIN fs
                             /\ fs[Parent(new)] = "dir"
          /\ fs' = [p \in DOMAIN fs \cup {new} |->
                      IF p = new THEN k ELSE fs[p]]
    /\ UNCHANGED <<procs, windows, rphase, rimpl, rreq, rrecursive, rplan,
                   rdry, rbulk, rorder, rresults, rtouched, ranyway, rlock, rlog, fsBefore, procsBefore, rplan2>>

RmInit ==
    /\ procs = Pids
    /\ KillIdle
    /\ PortIdle
    /\ TopIdle
    /\ InspectIdle
    /\ LockIdle
    /\ fs = <<>>
    /\ windows \in BOOLEAN
    /\ rphase = "idle"
    /\ rimpl = "none"
    /\ rreq = <<>>
    /\ rrecursive = FALSE
    /\ rplan = <<>>
    /\ rdry = FALSE
    /\ rbulk = FALSE
    /\ rorder = <<>>
    /\ rresults = <<>>
    /\ rtouched = {}
    /\ ranyway = FALSE
    /\ rlock = [paths |-> {}, holders |-> {}]
    /\ rlog = <<>>
    /\ fsBefore = <<>>
    /\ procsBefore = {}
    /\ rplan2 = <<>>

RmNext ==
    \/ FsCreate /\ UNCHANGED <<killctl, killbatch, portvars, topvars, inspectvars, lockvars>>
    \/ CorePlan /\ UNCHANGED <<killctl, killbatch, portvars, topvars, inspectvars, lockvars>>
    \/ LegacyPlan /\ UNCHANGED <<killctl, killbatch, portvars, topvars, inspectvars, lockvars>>
    \/ CoreRemoveFiles /\ UNCHANGED <<killctl, killbatch, portvars, topvars, inspectvars, lockvars>>
    \/ LegacyRemoveFiles /\ UNCHANGED <<killctl, killbatch, portvars, topvars, inspectvars, lockvars>>
    \/ RePlan /\ UNCHANGED <<killctl, killbatch, portvars, topvars, inspectvars, lockvars>>

SpecRemove == RmInit /\ [][RmNext]_vars

----------------------------------------------------------------------------
(***************************************************************************)
(* Frame renderer: render_frame of ui/render.rs.  A frame is a sequence of *)
(* lines; what the function writes is kept as a sequence of operations,    *)
(* one per write! / println! of the source.                                *)
(***************************************************************************)

LineTexts == {"A", "B"}

Frames == SeqsUpTo(LineTexts, MaxLines)

Op(op, text, n) == [op |-> op, text |-> text, n |-> n]

\* a comparison that finds every pair of lines different
NeverSame(new_line, old_line) == FALSE

\* the guard 'if new_line == old_line' of the first match arm
SameLine(new_line, old_line) == new_line = old_line

\* a loop that stops at the end of the shorter frame
Shorter(a, b) == IF a <= b THEN a ELSE b

Longer(a, b) == IF a >= b THEN a ELSE b

\* for i in 0..max_len { match (lines.get(i), last_frame.get(i)) .. }
RECURSIVE DiffLoop(_, _, _)
DiffLoop(lines, last, i) ==
    IF i > Longer(Len(lines), Len(last))
      THEN [out |-> <<>>, changed_lines |-> 0]
      ELSE LET rest == DiffLoop(lines, last, i + 1)
           IN  IF i <= Len(lines) /\ i <= Len(last)
                    /\ SameLine(lines[i], last[i])
                 THEN [out |-> <<Op("next_line", "", 0)>> \o rest.out,
                       changed_lines |-> rest.changed_lines]
                 ELSE IF i <= Len(lines)
                 THEN [out |-> <<Op("clear_and_write", lines[i], 0)>>
                                 \o rest.out,
                       changed_lines |-> rest.changed_lines + 1]
                 ELSE [out |-> <<Op("clear_line", "", 0)>> \o rest.out,
                       changed_lines |-> rest.changed_lines + 1]

\* an update of the buffer that looks at the lengths alone
LengthDiffers(changed_lines, lines, last) == Len(lines) # Len(last)

\* if changed_lines > 0 || lines.len() != last_frame.len()
BufferStale(changed_lines, lines, last) ==
    changed_lines > 0 \/ Len(lines) # Len(last)

\* render_frame(lines, incremental, last_frame): what it writes, and the
\* last_frame it leaves
RenderFrame(lines, inc, last) ==
    IF ~inc
      THEN [out |-> [i \in 1..Len(lines) |-> Op("println", lines[i], 0)],
            last_frame |-> last]
      ELSE LET max_len == Longer(Len(lines), Len(last))
               diff == DiffLoop(lines, last, 1)
               erase == IF max_len > Len(lines)
                          THEN Op("erase_display", "",
                                  max_len - Len(lines) + 1)
                          ELSE Op("erase_display", "", 0)
           IN  [out |-> <<Op("hide_cursor", "", 0), Op("home", "", 0)>>
                          \o diff.out
                          \o <<erase, Op("show_cursor", "", 0),
                               Op("flush", "", 0)>>,
                last_frame |-> IF BufferStale(diff.changed_lines, lines, last)
                                 THEN lines
                                 ELSE last]

\* the two latest frames, after lines was rendered
Shown(sh, lines) ==
    IF sh = <<>> THEN <<lines>> ELSE <<sh[Len(sh)], lines>>

RenderInit ==
    /\ procs = {}
    /\ KillIdle
    /\ PortIdle
    /\ RmIdle
    /\ incremental \in BOOLEAN
    /\ last_frame = <<>>
    /\ shown = <<>>
    /\ stdout = <<>>
    /\ tpc = "idle"
    /\ once = FALSE
    /\ use_alt_screen = FALSE
    /\ tick = 0
    /\ baseline = 0
    /\ refreshes = 0
    /\ renders = 0
    /\ tsleeps = 0
    /\ alt_enters = 0
    /\ alt_exits = 0
    /\ screen = "normal"
    /\ show_cpu = FALSE
    /\ limit = 0
    /\ snapshot = <<>>
    /\ rows = <<>>
    /\ InspectIdle
    /\ LockIdle

\* One call of render_frame with the frame a caller built.
RenderFrameCall ==
    \E lines \in Frames :
       \E r \in {RenderFrame(lines, incremental, last_frame)} :
          /\ stdout' = r.out
          /\ last_frame' = r.last_frame
          /\ shown' = Shown(shown, lines)
          /\ UNCHANGED incremental

RenderNext ==
    \/ RenderFrameCall /\ UNCHANGED <<killvars, portvars, rmvars, topctl, toprows, inspectvars, lockvars>>

SpecRender == RenderInit /\ [][RenderNext]_vars

----------------------------------------------------------------------------
(***************************************************************************)
(* Live monitor: run_top of core/top/mod.rs.  The process has no handler   *)
(* for the interrupt signal and no guard object: an interrupt ends the     *)
(* process where it is.                                                    *)
(***************************************************************************)

\* should_use_alt_screen(profile): the profile's flag, and on Windows the
\* terminal the environment variables describe
ShouldUseAltScreen(alt_screen, win, modern_terminal) ==
    alt_screen /\ (~win \/ modern_terminal)

\* display_top: the summary line with the status icon, the status line with
\* the refresh count, then the table the snapshot gave
IconLine(refresh) == IF refresh % 2 = 0 THEN "[full]" ELSE "[half]"

StatusLine(refresh) == ToString(refresh)

\* The processes a refresh may find: pid, memory_bytes, cpu_usage.  Two of
\* them tie on memory, and the cpu of one outweighs the memory of the rest.
Running ==
    {[pid |-> 1, memory_bytes |-> 100, cpu |-> 0],
     [pid |-> 2, memory_bytes |-> 200, cpu |-> 0],
     [pid |-> 3, memory_bytes |-> 200, cpu |-> 1]}

\* system.processes().iter(): the processes alive, in the map's order
Snapshots ==
    {q \in SeqsUpTo(Running, Cardinality(Running)) :
        \A i, j \in DOMAIN q : i # j => q[i] # q[j]}

\* the values of opts.limit
Limits == {0, 1, 2}

\* memory_bytes * 0.7 + cpu * 1000.0 * 0.3, times ten
Score(a) == 7 * a.memory_bytes + 3000 * a.cpu

\* the comparator of processes.sort_by returns Less for (a, b)
RowBefore(a, b, cpu) ==
    IF cpu THEN Score(a) > Score(b) ELSE a.memory_bytes > b.memory_bytes

RECURSIVE InsertRow(_, _, _)
InsertRow(x, sorted, cpu) ==
    IF sorted = <<>>
      THEN <<x>>
      ELSE IF RowBefore(x, sorted[Len(sorted)], cpu)
             THEN InsertRow(x, SubSeq(sorted, 1, Len(sorted) - 1), cpu)
                    \o <<sorted[Len(sorted)]>>
             ELSE sorted \o <<x>>

\* processes.sort_by(..): stable
RECURSIVE SortProcesses(_, _)
SortProcesses(q, cpu) ==
    IF q = <<>>
      THEN <<>>
      ELSE InsertRow(q[Len(q)], SortProcesses(SubSeq(q, 1, Len(q) - 1), cpu),
                     cpu)

\* a limit taken as given
AsGiven(lim) == lim

\* opts.limit.max(1)
AtLeastOne(lim) == IF lim >= 1 THEN lim ELSE 1

\* processes.truncate(n)
Truncate(q, n) == SubSeq(q, 1, IF Len(q) <= n THEN Len(q) ELSE n)

\* the processes handed to display_top
TopRows(snap, cpu, lim) ==
    Truncate(SortProcesses(snap, cpu), AtLeastOne(lim))

\* display_top: one table line per process
TableLines(processes, cpu) ==
    [i \in DOMAIN processes |->
        ToString(<<i, processes[i].pid, processes[i].memory_bytes,
                   IF cpu THEN processes[i].cpu ELSE 0>>)]

DisplayTopLines(refresh, table) ==
    <<IconLine(refresh), StatusLine(refresh)>> \o table

TopInit ==
    /\ procs = {}
    /\ KillIdle
    /\ PortIdle
    /\ RmIdle
    /\ TopIdle
    /\ InspectIdle
    /\ LockIdle

\* run_top up to the loop: the terminal profile, enter_alternate_screen,
\* the baseline refresh and the 100 ms wait
TopStart ==
    /\ tpc = "idle"
    /\ \E o \in BOOLEAN, alt \in BOOLEAN, inc \in BOOLEAN, win \in BOOLEAN,
          modern \in BOOLEAN :
          LET use == ~o /\ ShouldUseAltScreen(alt, win, modern)
          IN  /\ once' = o
              /\ use_alt_screen' = use
              /\ incremental' = (~o /\ inc)
              /\ alt_enters' = IF use THEN 1 ELSE 0
              /\ screen' = IF use THEN "alternate" ELSE "normal"
              /\ tsleeps' = IF o THEN 0 ELSE 1
    /\ show_cpu' \in BOOLEAN
    /\ limit' \in Limits
    /\ snapshot' = <<>>
    /\ rows' = <<>>
    /\ tick' = 0
    /\ baseline' = 1
    /\ tpc' = "loop"
    /\ UNCHANGED <<last_frame, shown, stdout, refreshes, renders, alt_exits>>

\* a loop that never leaves
BreakNever(o) == FALSE

\* if opts.once { break; }
BreakLoop(o) == o

\* One iteration of the loop: refresh, sort, display_top, then break or
\* sleep for what is left of the interval.
TopTick ==
    /\ tpc = "loop"
    /\ tick < MaxTicks
    /\ tick' = tick + 1
    /\ refreshes' = refreshes + 1
    /\ renders' = renders + 1
    /\ \E snap \in Snapshots :
          \E lines \in {DisplayTopLines(
                            tick + 1,
                            TableLines(TopRows(snap, show_cpu, limit),
                                       show_cpu))} :
          \E r \in {RenderFrame(lines, incremental, last_frame)} :
             /\ snapshot' = snap
             /\ rows' = TopRows(snap, show_cpu, limit)
             /\ stdout' = r.out
             /\ last_frame' = r.last_frame
             /\ shown' = Shown(shown, lines)
    /\ IF BreakLoop(once)
         THEN /\ tpc' = "leaving"
              /\ UNCHANGED tsleeps
         ELSE /\ tpc' = "loop"
              /\ \E late \in BOOLEAN :
                    tsleeps' = IF late THEN tsleeps ELSE tsleeps + 1
    /\ UNCHANGED <<incremental, once, use_alt_screen, baseline, alt_enters,
                   alt_exits, screen, show_cpu, limit>>

\* After the loop: exit_alternate_screen if it was entered, then Ok(()).
TopLeave ==
    /\ tpc = "leaving"
    /\ tpc' = "returned"
    /\ alt_exits' = IF use_alt_screen THEN alt_exits + 1 ELSE alt_exits
    /\ screen' = IF use_alt_screen THEN "normal" ELSE screen
    /\ UNCHANGED <<rendervars, toprows, once, use_alt_screen, tick, baseline,
                   refreshes, renders, tsleeps, alt_enters>>

\* The user cancels the monitor: the interrupt signal, with its default
\* disposition, ends the process.
TopInterrupt ==
    /\ tpc \in {"loop", "leaving"}
    /\ tpc' = "interrupted"
    /\ UNCHANGED <<rendervars, toprows, once, use_alt_screen, tick, baseline,
                   refreshes, renders, tsleeps, alt_enters, alt_exits,
                   screen>>

TopStep ==
    \/ TopTick
    \/ TopLeave

TopNext ==
    \/ TopStart /\ UNCHANGED <<killvars, portvars, rmvars, inspectvars, lockvars>>
    \/ TopStep /\ UNCHANGED <<killvars, portvars, rmvars, inspectvars, lockvars>>
    \/ TopInterrupt /\ UNCHANGED <<killvars, portvars, rmvars, inspectvars, lockvars>>

SpecTop == TopInit /\ [][TopNext]_vars

\* The thread of run_top is never suspended forever.
FairSpecTop ==
    /\ TopInit
    /\ [][TopNext]_vars
    /\ WF_vars(TopStep /\ UNCHANGED <<killvars, portvars, rmvars, inspectvars, lockvars>>)

----------------------------------------------------------------------------
(***************************************************************************)
(* Lock inspection: inspect_file_locks of core/process/mod.rs, over        *)
(* is_file_locked and find_processes_by_file of core/process/lock.rs.      *)
(***************************************************************************)

InspectRequests ==
    {<<(<<"a">>)>>, <<(<<"b">>)>>, <<(<<"a">>), (<<"b">>)>>,
     <<(<<"a">>), (<<"a">>)>>}

\* the pid lists the lookup tools may print for one path
PidLists == {<<>>, <<1>>, <<2, 1>>, <<1, 1>>}

\* What the operating system answers for one path: whether it exists,
\* whether the platform's detection reports a lock, and the pids the lookup
\* tools print.
Probes == [exists : BOOLEAN, os_locked : BOOLEAN, pids : PidLists]

\* is_file_locked(path)
IsLockedSignal(pb) == pb.exists /\ pb.os_locked

\* find_processes_by_file(path).unwrap_or_default()
HoldersSignal(pb) == IF pb.exists THEN pb.pids ELSE <<>>

RECURSIVE SortUnstable(_)
SortUnstable(q) ==
    IF q = <<>> THEN <<>>
    ELSE LET least == CHOOSE i \in DOMAIN q : \A j \in DOMAIN q : q[i] <= q[j]
         IN  <<q[least]>>
               \o SortUnstable([k \in 1..(Len(q) - 1) |->
                                  IF k < least THEN q[k] ELSE q[k + 1]])

\* Vec::dedup: consecutive equal elements become one
RECURSIVE Dedup(_)
Dedup(q) ==
    IF Len(q) <= 1 THEN q
    ELSE IF q[1] = q[2] THEN Dedup(Tail(q))
    ELSE <<q[1]>> \o Dedup(Tail(q))

\* one FileLockProcess per pid, named from the snapshot or "unknown"
ProcessesOf(pids, pr) ==
    [i \in DOMAIN pids |->
        [pid |-> pids[i],
         name |-> IF pids[i] \in pr THEN "known" ELSE "unknown"]]

\* locked with the holder list left out of account
NoHoldersFound(processes) == FALSE

\* if !processes.is_empty() { locked = true; }
HoldersFound(processes) == processes # <<>>

\* locked taken from the holder list alone
OnlyHolders(locked, found) == found

\* the value of locked pushed into FileLockInfo
Either(locked, found) == locked \/ found

\* the body of 'for path in paths'
FileLockInfoOf(path, pb, pr) ==
    LET processes == ProcessesOf(Dedup(SortUnstable(HoldersSignal(pb))), pr)
    IN  [path |-> path,
         locked |-> Either(IsLockedSignal(pb), HoldersFound(processes)),
         processes |-> processes]

InspectInit ==
    /\ procs \in SUBSET Pids
    /\ KillIdle
    /\ PortIdle
    /\ RmIdle
    /\ TopIdle
    /\ InspectIdle
    /\ LockIdle

\* One call of inspect_file_locks(paths).
InspectFileLocks ==
    \E paths \in InspectRequests :
       \E probes \in [DOMAIN paths -> Probes] :
          /\ ipaths' = paths
          /\ iprobes' = probes
          /\ iresults' = [i \in DOMAIN paths |->
                            FileLockInfoOf(paths[i], probes[i], procs)]

InspectNext ==
    \/ InspectFileLocks /\ UNCHANGED <<killvars, portvars, rmvars, topvars, lockvars>>

SpecInspect == InspectInit /\ [][InspectNext]_vars

----------------------------------------------------------------------------
(***************************************************************************)
(* Lock detection: is_file_locked and find_processes_by_file of            *)
(* core/process/lock.rs.  The answers of the operating system and of the   *)
(* external tools are the inputs; the output of a tool is kept as the pids *)
(* of the lines that parse, in the order of the lines.                     *)
(***************************************************************************)

\* what is_file_locked may meet: the path, the build target, and the
\* outcome of every probe the function may make
LockEnvs ==
    [exists : BOOLEAN, win : BOOLEAN, representable : BOOLEAN,
     is_dir : BOOLEAN,
     lsof : {"unavailable", "exit0", "exit1"},
     open_write : {"ok", "permission_denied", "not_found", "other"},
     open_read : BOOLEAN,
     powershell : {"unavailable", "failed", "success"},
     count : {0, 1, 10},
     rename : BOOLEAN,
     read_dir : {"ok", "permission_denied", "other"}]

\* output_str.trim().contains("0") on the Count line that Measure-Object
\* prints
ContainsZero(count) == count % 10 = 0

\* is_file_locked_unix
IsFileLockedUnix(env) ==
    IF ~env.representable
      THEN FALSE
      ELSE env.lsof = "exit0"

\* is_directory_locked (Windows)
IsDirectoryLocked(env) == env.read_dir # "ok"

\* check_file_locking_status (Windows)
CheckFileLockingStatus(env) ==
    IF env.open_read
      THEN TRUE
      ELSE IF env.powershell = "success"
        THEN ~ContainsZero(env.count)
        ELSE IF env.powershell = "failed"
          THEN TRUE
          ELSE ~env.rename

\* is_file_locked_windows
IsFileLockedWindows(env) ==
    IF env.is_dir
      THEN IsDirectoryLocked(env)
      ELSE IF env.open_write = "ok" THEN FALSE
      ELSE IF env.open_write = "permission_denied"
        THEN CheckFileLockingStatus(env)
      ELSE IF env.open_write = "not_found" THEN FALSE
      ELSE TRUE

\* is_file_locked
IsFileLockedIn(env) ==
    IF ~env.exists
      THEN FALSE
      ELSE IF env.win THEN IsFileLockedWindows(env) ELSE IsFileLockedUnix(env)

\* the output of one lookup tool: whether it ran with success, and the pids
\* of its lines
ToolOutputs == [ok : BOOLEAN, pids : PidLists]

FindEnvs ==
    [exists : BOOLEAN, win : BOOLEAN, representable : BOOLEAN,
     handle : ToolOutputs, powershell : ToolOutputs, wmic : ToolOutputs,
     lsof : ToolOutputs]

\* for line in output_str.lines() { .. pids.push(pid) }
PushAll(tool) == IF tool.ok THEN tool.pids ELSE <<>>

Contains(pids, pid) == \E i \in DOMAIN pids : pids[i] = pid

\* for pid in more { if !pids.contains(&pid) { pids.push(pid) } }
RECURSIVE PushNew(_, _)
PushNew(pids, more) ==
    IF more = <<>>
      THEN pids
      ELSE PushNew(IF Contains(pids, Head(more))
                     THEN pids
                     ELSE Append(pids, Head(more)),
                   Tail(more))

\* find_processes_with_handle, find_processes_with_wmic
FindProcessesWithHandle(env) == PushAll(env.handle)

FindProcessesWithWmic(env) == PushAll(env.wmic)

\* find_processes_with_powershell: && !pids.contains(&pid)
FindProcessesWithPowershell(env) == PushNew(<<>>, PushAll(env.powershell))

\* find_processes_by_file
FindProcessesByFileIn(env) ==
    IF ~env.exists
      THEN <<>>
      ELSE IF env.win
        THEN PushNew(PushNew(<<>> \o FindProcessesWithHandle(env),
                             FindProcessesWithPowershell(env)),
                     FindProcessesWithWmic(env))
        ELSE IF ~env.representable
          THEN <<>>
          ELSE PushAll(env.lsof)

LockInit ==
    /\ procs = {}
    /\ KillIdle
    /\ PortIdle
    /\ RmIdle
    /\ TopIdle
    /\ InspectIdle
    /\ LockIdle

\* One call of is_file_locked(path).  The function keeps no state between
\* calls, so a behaviour makes one call.
IsFileLockedCall ==
    /\ lop = "none"
    /\ \E env \in LockEnvs :
          /\ lockenv' = env
          /\ llocked' = IsFileLockedIn(env)
    /\ lop' = "is_file_locked"
    /\ UNCHANGED <<findenv, lpids>>

\* One call of find_processes_by_file(path).
FindProcessesByFileCall ==
    /\ lop = "none"
    /\ \E env \in FindEnvs :
          /\ findenv' = env
          /\ lpids' = FindProcessesByFileIn(env)
    /\ lop' = "find"
    /\ UNCHANGED <<lockenv, llocked>>

LockNext ==
    \/ IsFileLockedCall
         /\ UNCHANGED <<killvars, portvars, rmvars, topvars, inspectvars>>
    \/ FindProcessesByFileCall
         /\ UNCHANGED <<killvars, portvars, rmvars, topvars, inspectvars>>

SpecLock == LockInit /\ [][LockNext]_vars

----------------------------------------------------------------------------
(***************************************************************************)
(* Properties of the lifecycle manager.                                    *)
(***************************************************************************)

KillDone == kpc = "done" /\ kfn = "kill_process"

ForceDone == kpc = "done" /\ kfn = "kill_process_force"

C2_AtMostThreeSignals ==
    kfn = "kill_process_force" => signals <= 3

C2_Witness == ForceDone /\ signals = 3 /\ accepted = 3

\* C3: kill_process_force on a pid absent from the initial snapshot returns
\* success at once: one snapshot, no signal, no sleep.
C3_ForceAbsentReturnsAtOnce ==
    (kfn = "kill_process_force" /\ kfirst = "absent") =>
        /\ kpc \in {"done", "idle"}
        /\ kresult = "ok"
        /\ snaps = 1
        /\ signals = 0
        /\ slept = 0

C3_Witness == ForceDone /\ kfirst = "absent" /\ kresult = "ok"

\* C4: every execution of kill_process_force ends, in success or failure;
\* it ends in failure exactly when all three attempts were used and the pid
\* was never seen gone; a signal rejected on attempt 1 or 2 leads to the
\* next attempt.
C4_ForceTerminates ==
    /\ [](ForceDone =>
            /\ kresult \in {"ok", "err_denied", "err_still_running"}
            /\ (kresult # "ok") <=>
                 (attempt = 3 /\ signals = 3 /\ klast = "present")
            /\ (kresult = "err_denied") => klastsig = "rejected"
            /\ (kresult = "err_still_running") => klastsig = "accepted")
    /\ [][(kpc = "attempt" /\ attempt < 3 /\ signals' = signals + 1
             /\ klastsig' = "rejected")
          => (kpc' = "between" /\ kresult' = "none")]_vars
    /\ [][(kpc = "between" /\ attempt < 3 /\ kpc' # kpc)
          => (kpc' = "attempt" /\ attempt' = attempt + 1)]_vars
    /\ ((kfn = "kill_process_force" /\ kpc = "check") ~> (kpc = "done"))

C4_Witness ==
    ForceDone /\ kresult = "err_denied" /\ signals = 3 /\ accepted = 2

\* C5: one execution of kill_process_force sleeps at most
\* 3 x 500 ms + 2 x 1000 ms = 3500 ms: 500 ms once per accepted signal,
\* 1000 ms once between two attempts, and not after the third attempt.
C5_SleepBudget ==
    kfn = "kill_process_force" =>
        /\ slept <= 3500
        /\ slept = 500 * sleeps500 + 1000 * sleeps1000
        /\ sleeps500 = accepted
        /\ sleeps1000 = (IF attempt = 0 THEN 0 ELSE attempt - 1)
        /\ sleeps1000 <= 2

C5_Witness == ForceDone /\ slept = 3500 /\ kresult = "err_still_running"

----------------------------------------------------------------------------
(***************************************************************************)
(* Properties of the connection resolver.                                  *)
(***************************************************************************)

PortsOf(infos) == {infos[i].port : i \in DOMAIN infos}

Requested == {preq[i] : i \in DOMAIN preq}

\* C6 as stated: for every requested port list, find_processes_by_ports
\* returns only requested ports, at most one PortInfo per port, and nothing
\* for a port that is unbound or whose owner is not in the snapshot.
C6_ResolveOnePerPort ==
    pop = "find" =>
        /\ PortsOf(pout) \subseteq Requested
        /\ \A i, j \in DOMAIN pout : i # j => pout[i].port # pout[j].port
        /\ \A q \in Requested :
             (q \notin DOMAIN connections \/ connections[q] \notin procs)
                => q \notin PortsOf(pout)

\* C7: the output of list_all_ports is strictly ascending by port, hence
\* without a repeated port, whatever rows the backend reports.
C7_ListStrictlyAscending ==
    pop = "list" =>
        \A i, j \in DOMAIN pout : i < j => pout[i].port < pout[j].port

C7_Witness == pop = "list" /\ Len(pout) >= 2 /\ replaced >= 1

----------------------------------------------------------------------------
(***************************************************************************)
(* Properties of the removal engine.                                       *)
(***************************************************************************)

Executed == rphase \in {"executed", "replanned"}

\* b is a directory above a: a proper component-wise prefix
IsAncestor(b, a) == b # a /\ StartsWith(a, b)

\* the entries of a plan, as a set
EntrySet(files) == {files[i] : i \in DOMAIN files}

C9_DryRunChangesNothing ==
    (Executed /\ rdry) =>
        /\ fs = fsBefore
        /\ procs = procsBefore
        /\ rtouched = {}
        /\ rphase = "replanned" =>
             /\ rplan2 # <<>>
             /\ EntrySet(rplan2) = EntrySet(rplan)

\* a dry run over a plan of several entries, planned again afterwards
C9_Witness ==
    /\ rphase = "replanned"
    /\ rdry
    /\ Len(rplan) >= 3
    /\ EntrySet(rplan2) = EntrySet(rplan)

\* C10 as stated: remove_files with dry_run = true returns exactly one Ok
\* result for each entry of the plan, on every platform path.
C10_DryRunReportsEveryEntry ==
    (Executed /\ rdry) =>
        /\ Len(rresults) = Len(rplan)
        /\ \A i \in DOMAIN rresults : rresults[i].ok
        /\ \A e \in EntrySet(rplan) :
             Cardinality({i \in DOMAIN rresults : rresults[i].path = e.path})
               = Cardinality({i \in DOMAIN rplan : rplan[i].path = e.path})

\* the path t was held open when remove_files was called
LockedTarget(t) ==
    t \in rlock.paths /\ IsFileLocked(fsBefore, procsBefore, t, rlock)

\* the positions of the results reported for path t
ResultsFor(t) == {i \in DOMAIN rresults : rresults[i].path = t}

\* the attempts remove_single_file made on path t
AttemptsOn(t) ==
    {i \in DOMAIN rlog : rlog[i].ev = "attempt" /\ rlog[i].path = t}

\* C11 as stated: without anyway, a locked target fails at once with the
\* "locked" error: no delete call is made on it, it is tried once and not
\* slept on, no process is killed, and it still exists afterwards.
C11_LockedFailsAtOnce ==
    (Executed /\ ~rdry /\ ~ranyway) =>
        \A t \in Paths : LockedTarget(t) =>
            /\ ResultsFor(t) # {}
            /\ \A i \in ResultsFor(t) : rresults[i].err = "locked"
            /\ t \notin rtouched
            /\ Cardinality(AttemptsOn(t)) <= 1
            /\ \A i \in AttemptsOn(t) :
                 i < Len(rlog) => rlog[i + 1].ev # "sleep"
            /\ procs = procsBefore
            /\ t \in DOMAIN fs

\* C12 as stated: with anyway, a target of remove_files of file.rs that is
\* locked while no holder can be identified gets the "locked but
\* unidentifiable" failure, and no delete call is made on it on any attempt.
C12_UnidentifiableNeverDeleted ==
    (Executed /\ ~rdry /\ ranyway /\ rimpl = "legacy") =>
        \A t \in Paths : (LockedTarget(t) /\ rlock.holders = {}) =>
            /\ ResultsFor(t) # {}
            /\ \A i \in ResultsFor(t) : rresults[i].err = "unidentifiable"
            /\ t \notin rtouched

\* the requested paths that are directories
RequestedDirs ==
    {rreq[i] : i \in {j \in DOMAIN rreq :
                        rreq[j] \in DOMAIN fs /\ fs[rreq[j]] = "dir"}}

\* the request names one directory, which is empty
OneEmptyDirRequested ==
    /\ Len(rreq) = 1
    /\ rreq[1] \in RequestedDirs
    /\ Children(fs, rreq[1]) = {}

BatchReturned == kpc = "idle" /\ kfn # "none"

\* the returned vector has one element per element of pids, in slice order
KillBatchInOrder ==
    /\ Len(kresults) = Len(kbatch)
    /\ \A i \in DOMAIN kresults : kresults[i].pid = kbatch[i]

\* the returned vector has one element per element of files, in slice order
RemoveBatchInOrder ==
    /\ Len(rresults) = Len(rplan)
    /\ \A i \in DOMAIN rresults : rresults[i].path = rplan[i].path

\* C14 as stated: a batch of N targets yields exactly N results, one per
\* target in input order, for kill_processes, kill_processes_force and
\* remove_files of core/fs_ops; a failed target leaves the results of the
\* other targets in place.
C14_BatchYieldsOneResultPerTarget ==
    /\ BatchReturned => KillBatchInOrder
    /\ (Executed /\ rimpl = "core") => RemoveBatchInOrder

\* The part of C14 on the lifecycle manager: while the batch runs the
\* vector is the prefix handled so far, failures included, and on return it
\* is complete.
C14_KillBatchPrefix ==
    /\ Len(kresults) <= Len(kbatch)
    /\ \A i \in DOMAIN kresults :
         /\ kresults[i].pid = kbatch[i]
         /\ kresults[i].result # "none"
    /\ BatchReturned => KillBatchInOrder

C14_KillWitness ==
    /\ BatchReturned
    /\ Len(kbatch) = MaxBatch
    /\ kresults[1].result # "ok"
    /\ kresults[2].result = "ok"

\* the operations of the given kind in the output of the latest call
OpsOf(kind) == {i \in DOMAIN stdout : stdout[i].op = kind}

\* the latest call got a frame equal, line for line, to the frame of the
\* call before it
SameFrameAgain == Len(shown) = 2 /\ shown[1] = shown[2]

\* C15: when render_frame, in incremental mode, is given a frame that is
\* line for line identical to the frame it rendered in the previous call,
\* it writes no clear-and-rewrite of a line and no clear of a line, and
\* exactly one cursor advance per line of the frame.
C15_IdenticalFrameOnlyAdvances ==
    (incremental /\ SameFrameAgain) =>
        /\ OpsOf("clear_and_write") = {}
        /\ OpsOf("clear_line") = {}
        /\ Cardinality(OpsOf("next_line")) = Len(shown[2])
        /\ last_frame = shown[2]

C15_Witness ==
    /\ incremental
    /\ SameFrameAgain
    /\ Len(shown[2]) = MaxLines
    /\ shown[2][1] # shown[2][2]
    /\ Cardinality(OpsOf("next_line")) = MaxLines

\* run_top is over: it returned, or the process was interrupted
TopOver == tpc \in {"returned", "interrupted"}

\* C16 as stated: whenever run_top entered the alternate screen, the normal
\* screen is shown again once the loop is over, be it by completion of once
\* mode or by cancellation.
C16_NormalScreenRestored ==
    (TopOver /\ alt_enters > 0) => screen = "normal"

\* what holds of a run in once mode at every moment
OnceModeSteps ==
    once =>
        /\ tick <= 1
        /\ refreshes = tick
        /\ renders = tick
        /\ baseline = 1
        /\ alt_enters = 0
        /\ alt_exits = 0
        /\ tsleeps = 0
        /\ screen = "normal"
        /\ tpc \in {"leaving", "returned"} => tick = 1

\* C17: in once mode run_top makes exactly one iteration of its loop (one
\* refresh and one call of display_top, after the baseline refresh that
\* precedes the loop), never enters or leaves the alternate screen, never
\* sleeps, and then returns unless the process is interrupted first.
C17_OnceModeOneTick ==
    /\ []OnceModeSteps
    /\ (once /\ tpc = "loop") ~> TopOver

C17_Witness ==
    /\ once
    /\ tpc = "returned"
    /\ tick = 1
    /\ renders = 1
    /\ Len(stdout) >= 2

\* C18: for every inspected path, locked is true if is_file_locked reports
\* a lock or find_processes_by_file returns at least one pid, and false
\* only when neither does.
C18_LockedIsEitherSignal ==
    \A i \in DOMAIN iresults :
        iresults[i].locked =
            (IsLockedSignal(iprobes[i]) \/ HoldersSignal(iprobes[i]) # <<>>)

C18_Witness ==
    /\ Len(iresults) = 2
    /\ IsLockedSignal(iprobes[1]) /\ HoldersSignal(iprobes[1]) = <<>>
    /\ iresults[1].locked
    /\ ~IsLockedSignal(iprobes[2]) /\ HoldersSignal(iprobes[2]) # <<>>
    /\ iresults[2].locked

\* one FileLockInfo per element of paths, in the order of the slice
OneInfoPerPath ==
    /\ Len(iresults) = Len(ipaths)
    /\ \A i \in DOMAIN iresults : iresults[i].path = ipaths[i]

\* C19 as stated: inspect_file_locks returns one info per input path, and
\* locked is true exactly when the holder list of the info is non-empty.
C19_LockedIffHolders ==
    /\ OneInfoPerPath
    /\ \A i \in DOMAIN iresults :
         iresults[i].locked = (iresults[i].processes # <<>>)

\* C19 amended: inspect_file_locks returns one info per input path; locked
\* is true whenever the holder list is non-empty, and with an empty holder
\* list locked is what is_file_locked answered for the path.
C19_LockedIfHolders ==
    /\ OneInfoPerPath
    /\ \A i \in DOMAIN iresults :
         /\ iresults[i].processes # <<>> => iresults[i].locked
         /\ iresults[i].processes = <<>> =>
              iresults[i].locked = (iprobes[i].exists /\ iprobes[i].os_locked)

C19_Witness ==
    /\ Len(iresults) = 2
    /\ iresults[1].processes = <<>> /\ iresults[1].locked
    /\ iresults[2].processes # <<>> /\ iresults[2].locked
    /\ ~iprobes[2].os_locked

\* C20: kill_process_force returns success only if a snapshot it took (the
\* initial check, the check at the start of an attempt, or the verification
\* after a signal) showed the pid absent: it never returns success when its
\* last observation of the pid was "present".
C20_SuccessOnlyWhenSeenAbsent ==
    (kfn = "kill_process_force" /\ kresult = "ok") =>
        /\ klast = "absent"
        /\ snaps >= 1

C20_Witness ==
    /\ ForceDone
    /\ kresult = "ok"
    /\ kfirst = "present"
    /\ klast = "absent"
    /\ attempt = 2
    /\ klastsig = "accepted"
    /\ kpid \in procs

\* the holders find_processes_by_file names for t when remove_files starts
HoldersOf(t) == FindProcessesByFile(fsBefore, procsBefore, t, rlock)

\* the positions of the trace before position i
EarlierThan(i) == {j \in DOMAIN rlog : j < i}

\* before position i of the trace, kill_process_force ran on every holder
\* of t, and the 1000 ms wait came after the last of them
UnlockedBefore(t, i) ==
    \E w \in EarlierThan(i) :
        /\ rlog[w].ev = "sleep"
        /\ rlog[w].n = UnlockSleepMs
        /\ \A q \in HoldersOf(t) :
             \E k \in EarlierThan(w) : rlog[k].ev = "kill" /\ rlog[k].n = q

\* the delete calls made on path t
DeletesOn(t) ==
    {i \in DOMAIN rlog : rlog[i].ev = "delete" /\ rlog[i].path = t}

\* every delete call on a held target came after the unlock
DeleteOnlyAfterUnlock(t) ==
    /\ t \in rtouched => DeletesOn(t) # {}
    /\ \A i \in DeletesOn(t) : UnlockedBefore(t, i)

\* C21 as stated: with anyway, on a locked target whose holders are found,
\* kill_process_force is called on every holder and a wait of 1000 ms
\* passes before the delete call on that target; no delete call is made on
\* it before that.
C21_HoldersKilledBeforeDelete ==
    (Executed /\ ~rdry /\ ranyway) =>
        \A t \in Paths :
            (LockedTarget(t) /\ HoldersOf(t) # {}) => DeleteOnlyAfterUnlock(t)

\* The part of C21 on remove_files of file.rs.
C21_LegacyUnlocksBeforeDelete ==
    (Executed /\ ~rdry /\ ranyway /\ rimpl = "legacy") =>
        \A t \in Paths :
            (LockedTarget(t) /\ HoldersOf(t) # {}) => DeleteOnlyAfterUnlock(t)

C21_LegacyWitness ==
    /\ Executed /\ ~rdry /\ ranyway /\ rimpl = "legacy"
    /\ \E t \in Paths :
          /\ LockedTarget(t)
          /\ HoldersOf(t) # {}
          /\ DeletesOn(t) # {}
          /\ t \notin DOMAIN fs

\* the paths that are one entry of the plan and have a result
SingleEntries ==
    {t \in Paths : Cardinality({i \in DOMAIN rplan : rplan[i].path = t}) = 1
                   /\ ResultsFor(t) # {}}

\* the n-th attempt on t, as a set of positions of the trace
AttemptNo(t, n) == {i \in AttemptsOn(t) : rlog[i].n = n}

\* the attempts on t are numbered 1, 2, .. up to at most max_retries, and
\* each attempt after the first directly follows a sleep of 1000 ms times
\* the number of the attempt that failed before it
BoundedBackoff(t) ==
    /\ Cardinality(AttemptsOn(t)) <= MaxRetries
    /\ \A i \in AttemptsOn(t) :
         /\ rlog[i].n \in 1..MaxRetries
         /\ Cardinality(AttemptNo(t, rlog[i].n)) = 1
         /\ rlog[i].n > 1 =>
              /\ AttemptNo(t, rlog[i].n - 1) # {}
              /\ rlog[i - 1] = Event("sleep", <<>>, BackoffMs * (rlog[i].n - 1))

\* an entry reported as failed was tried max_retries times
FailureMeansExhausted(t) ==
    (\E i \in ResultsFor(t) : ~rresults[i].ok) =>
        Cardinality(AttemptsOn(t)) = MaxRetries

\* the per-entry loop ran on the plan and deleted for real
LoopExecuted == Executed /\ ~rdry /\ ~rbulk

\* C22 as stated: the per-entry deletion makes at most 3 attempts per
\* entry, sleeps 1000 ms times the attempt number after failed attempts 1
\* and 2 and then tries again, and makes no attempt after a success, so that
\* the error it reports is that of the third attempt.
C22_RetriesWithLinearBackoff ==
    LoopExecuted =>
        \A t \in SingleEntries :
            /\ AttemptsOn(t) # {}
            /\ BoundedBackoff(t)
            /\ FailureMeansExhausted(t)

\* The part of C22 on remove_single_file of file.rs.
C22_LegacyRetries ==
    (LoopExecuted /\ rimpl = "legacy") =>
        \A t \in SingleEntries :
            /\ AttemptsOn(t) # {}
            /\ BoundedBackoff(t)
            /\ FailureMeansExhausted(t)

C22_LegacyWitness ==
    /\ LoopExecuted
    /\ rimpl = "legacy"
    /\ \E t \in SingleEntries :
          /\ Cardinality(AttemptsOn(t)) = MaxRetries
          /\ \E i \in ResultsFor(t) : ~rresults[i].ok
    /\ \E t \in SingleEntries :
          /\ Cardinality(AttemptsOn(t)) = 2
          /\ \E i \in ResultsFor(t) : rresults[i].ok

\* collect_files_to_remove returned the plan of a recursive walk
RecursivePlan == rphase = "planned" /\ rrecursive

\* the descendants of the directory entry at position i that have an entry
DescendantsInPlan(i) ==
    {d \in PlanPaths(rplan) : IsAncestor(rplan[i].path, d)}

\* C23: in every plan the recursive walk produces, when a directory's own
\* entry is pushed, the entries of all its descendants in the collection
\* (files, links, subdirectories) are already there: each has an entry at
\* an earlier position.
C23_DirectoryAfterDescendants ==
    RecursivePlan =>
        \A i \in DOMAIN rplan :
            rplan[i].is_dir =>
                \A d \in DescendantsInPlan(i) :
                    \E j \in 1..(i - 1) : rplan[j].path = d

C23_Witness ==
    /\ RecursivePlan
    /\ \E i \in DOMAIN rplan :
          /\ rplan[i].is_dir
          /\ Cardinality(DescendantsInPlan(i)) >= 3
          /\ \E d \in DescendantsInPlan(i) : Len(d) = Len(rplan[i].path) + 2

\* the frame of the latest call of render_frame, and the frame of the call
\* before it (no line before the first call)
NewFrame == shown[Len(shown)]

OldFrame == IF Len(shown) = 2 THEN shown[1] ELSE <<>>

\* the line indices the latest call had to handle
LineIndices ==
    1..(IF Len(NewFrame) >= Len(OldFrame) THEN Len(NewFrame)
                                          ELSE Len(OldFrame))

\* what the latest call wrote for line index i: the writes for the lines
\* follow the two writes that hide the cursor and move it home
LineOp(i) == stdout[i + 2]

\* C24: in incremental mode render_frame handles line index i thus: new[i]
\* equal to old[i], a cursor advance and no rewrite; new[i] different from
\* old[i] or without an old[i], a clear of the line and a write of new[i];
\* old[i] without a new[i], a clear of the line.  The write that hides the
\* cursor comes before all of these, the write that shows it after them.
C24_LineByLineDiff ==
    (incremental /\ shown # <<>>) =>
        /\ Len(stdout) = Cardinality(LineIndices) + 5
        /\ OpsOf("hide_cursor") = {1}
        /\ OpsOf("show_cursor") = {Cardinality(LineIndices) + 4}
        /\ \A i \in LineIndices :
             IF i <= Len(NewFrame)
               THEN IF i <= Len(OldFrame) /\ NewFrame[i] = OldFrame[i]
                      THEN LineOp(i) = Op("next_line", "", 0)
                      ELSE LineOp(i) = Op("clear_and_write", NewFrame[i], 0)
               ELSE LineOp(i) = Op("clear_line", "", 0)

C24_Witness ==
    /\ incremental
    /\ Len(shown) = 2
    /\ Len(OldFrame) = 3
    /\ Len(NewFrame) = 2
    /\ NewFrame[1] = OldFrame[1]
    /\ NewFrame[2] # OldFrame[2]
    /\ LineOp(3).op = "clear_line"

\* C29: after every call of render_frame in incremental mode, last_frame
\* equals the frame just rendered, whatever frames came before (equal,
\* changed, longer, shorter); without incremental mode the calls leave
\* last_frame as it was created.
C29_BufferIsLatestFrame ==
    shown # <<>> =>
        /\ incremental => last_frame = NewFrame
        /\ ~incremental => last_frame = <<>>

C29_Witness ==
    /\ incremental
    /\ Len(shown) = 2
    /\ Len(OldFrame) = Len(NewFrame)
    /\ Len(NewFrame) >= 2
    /\ OldFrame # NewFrame
    /\ OldFrame[1] = NewFrame[1]
    /\ last_frame = NewFrame

\* the processes of the latest snapshot that got no row
NotShown == {snapshot[i] : i \in DOMAIN snapshot} \ {rows[i] : i \in DOMAIN rows}

\* C25: without cpu display, the rows handed to display_top by a tick are
\* max(limit, 1) processes of the snapshot (all of them if there are fewer),
\* each once, in non-increasing order of memory_bytes, and no process left
\* out has more memory than a process shown; with limit = 0 there is
\* exactly one row whenever the snapshot has a process.
C25_TopRowsByMemory ==
    (renders >= 1 /\ ~show_cpu) =>
        /\ Len(rows) = IF Len(snapshot) <= (IF limit >= 1 THEN limit ELSE 1)
                         THEN Len(snapshot)
                         ELSE IF limit >= 1 THEN limit ELSE 1
        /\ \A i \in DOMAIN rows : \E j \in DOMAIN snapshot : rows[i] = snapshot[j]
        /\ \A i, j \in DOMAIN rows : i # j => rows[i].pid # rows[j].pid
        /\ \A i, j \in DOMAIN rows :
             i < j => rows[i].memory_bytes >= rows[j].memory_bytes
        /\ \A a \in NotShown : \A i \in DOMAIN rows :
             a.memory_bytes <= rows[i].memory_bytes
        /\ (limit = 0 /\ snapshot # <<>>) => Len(rows) = 1

C25_Witness ==
    /\ renders >= 1
    /\ ~show_cpu
    /\ limit = 2
    /\ Len(snapshot) = 3
    /\ snapshot[1].memory_bytes < snapshot[3].memory_bytes
    /\ Len(rows) = 2
    /\ rows[1].pid = snapshot[2].pid

C25_WitnessZeroLimit ==
    /\ renders >= 1
    /\ ~show_cpu
    /\ limit = 0
    /\ Len(snapshot) >= 2
    /\ Len(rows) = 1

\* C26 as stated: find_processes_by_file never returns the same pid twice,
\* whatever the lookup tools print.
C26_HoldersAreDistinct ==
    lop = "find" =>
        \A i, j \in DOMAIN lpids : i # j => lpids[i] # lpids[j]

\* The part of C26 that holds: a pid that only the later strategies print
\* (PowerShell, wmic) is returned once.
C26_LaterStrategiesDeduplicated ==
    (lop = "find" /\ findenv.win) =>
        \A i, j \in DOMAIN lpids :
            (i # j /\ lpids[i] = lpids[j]) =>
                Contains(FindProcessesWithHandle(findenv), lpids[i])

C26_WitnessAcrossStrategies ==
    /\ lop = "find"
    /\ findenv.exists /\ findenv.win
    /\ findenv.handle.ok /\ findenv.handle.pids = <<1>>
    /\ findenv.powershell.ok /\ findenv.powershell.pids = <<1, 1>>
    /\ findenv.wmic.ok /\ findenv.wmic.pids = <<2, 1>>
    /\ lpids = <<1, 2>>

\* a probe of an existing path that failed or gave no answer: the path
\* cannot be handed to the tool, the tool cannot be started, or the
\* operating system answers with an error the probe does not expect
AmbiguousProbe(env) ==
    /\ env.exists
    /\ IF env.win
         THEN IF env.is_dir
                THEN env.read_dir = "other"
                ELSE \/ env.open_write = "other"
                     \/ /\ env.open_write = "permission_denied"
                        /\ ~env.open_read
                        /\ env.powershell = "failed"
         ELSE \/ ~env.representable
              \/ env.lsof = "unavailable"

\* C27 as stated: is_file_locked answers "locked" on every ambiguous or
\* failed probe of an existing path.
C27_AmbiguousMeansLocked ==
    (lop = "is_file_locked" /\ AmbiguousProbe(lockenv)) => llocked

\* The part of C27 that holds: the Windows probes answer "locked" whenever
\* they fail, and a path that does not exist is "unlocked" on both targets.
C27_WindowsDefaultsToLocked ==
    lop = "is_file_locked" =>
        /\ (lockenv.win /\ AmbiguousProbe(lockenv)) => llocked
        /\ ~lockenv.exists => ~llocked

C27_WindowsWitness ==
    /\ lop = "is_file_locked"
    /\ lockenv.win /\ lockenv.exists /\ ~lockenv.is_dir
    /\ lockenv.open_write = "other"
    /\ llocked

\* the proper ancestors of a path, as paths
Ancestors(p) == {SubSeq(p, 1, k) : k \in 1..(Len(p) - 1)}

\* the directories from which a link can be reached again and again
LinkToAncestor(f) == {p \in DOMAIN f : f[p] = "uplink" /\ Len(p) > 1}

\* C28: the recursive walk returns a finite plan on every tree, also when a
\* directory holds a link to its own ancestor: every entry is a path of the
\* tree itself, none lies beneath a symbolic link, and the plan has at most
\* one entry per existing path and requested root.
C28_WalkNeverDescendsIntoLink ==
    RecursivePlan =>
        /\ \A i \in DOMAIN rplan :
              /\ rplan[i].path \in DOMAIN fs
              /\ \A q \in Ancestors(rplan[i].path) :
                    q \in DOMAIN fs /\ fs[q] \notin Links
        /\ Len(rplan) <= Len(rreq) * Cardinality(DOMAIN fs)

\* a recursive plan of a directory that holds a link to itself, next to a
\* file that would be met again through the link
C28_Witness ==
    /\ RecursivePlan
    /\ \E l \in LinkToAncestor(fs) :
          /\ Parent(l) \in PlanPaths(rplan)
          /\ \E c \in Children(fs, Parent(l)) :
                c # l /\ c \in PlanPaths(rplan)

\* a remove_files call that was not a dry run has returned
Removed == rphase = "executed" /\ ~rdry

Reported(p) == \E k \in DOMAIN rresults : rresults[k].path = p

\* every entry of the plan is reported or gone, and every success names a
\* path that is gone
Accounted ==
    /\ \A i \in DOMAIN rplan :
          Reported(rplan[i].path) \/ rplan[i].path \notin DOMAIN fs
    /\ \A k \in DOMAIN rresults :
          rresults[k].ok => rresults[k].path \notin DOMAIN fs

\* C30 as stated: after a remove_files call that is not a dry run, every
\* entry of the plan is reported in the results or removed, and an entry
\* reported as success no longer exists.
C30_EveryEntryReportedOrRemoved == Removed => Accounted

\* The part of C30 that holds: whenever the entries were deleted one by one
\* (no bulk removal of a root directory), by either engine.
C30_OneByOneAccounts == (Removed /\ ~rbulk) => Accounted

C30_OneByOneWitness ==
    /\ Removed /\ ~rbulk
    /\ Len(rreq) = 2
    /\ \E k \in DOMAIN rresults : rresults[k].ok
    /\ \E k \in DOMAIN rresults : ~rresults[k].ok

=============================================================================
